---------------------------- MODULE Spec2Model ----------------------------
(***************************************************************************)
(* Model of the article generation pipeline of auto-blog-llm:              *)
(*   - usecases/create_drafts.py   assemble_markdown, _extract_body_lengths,*)
(*                                 run_qc, LLMOrchestrator,                 *)
(*                                 create_article_draft                     *)
(*   - usecases/run_batch_job.py   run_batch_job                            *)
(*   - infrastructure/wordpress/client.py   WordPressClient.create_draft    *)
(*   - infrastructure/persistence/in_memory_job_store.py  InMemoryJobStore  *)
(*   - app/server.py               run_job (the submission surface)         *)
(*                                                                         *)
(* Conventions.  A text is abstracted to the facts the code reads from it: *)
(* its number of code points after strip() and whether it holds one of the *)
(* assertive markers.  An identifier is the tuple of its characters, so    *)
(* that prefix tests and split("-") are computed as the code computes them.*)
(* A markdown document is the sequence of its lines.  Durations are in     *)
(* milliseconds.  Exceptions raised by collaborators are instances of      *)
(* Exception (what `except Exception` catches).                            *)
(***************************************************************************)
EXTENDS Integers, Sequences, FiniteSets, TLC

None == "None"     \* None where the value is a string
NoId == <<>>        \* None where the value is an identifier
NoInt == 0 - 1        \* None where the value is an integer

(***************************************************************************)
(* Bounds of the model.                                                    *)
(***************************************************************************)
MaxItems == 2          \* largest batch plan the language model returns
MaxRetriesBound == 4   \* largest max_retries a WordPressClient is built with

(***************************************************************************)
(* Program constants.                                                      *)
(***************************************************************************)
MetaMin == 80
MetaMax == 140
H2CountMin == 4
H2CountMax == 8
MinH2Length == 300
H3HardLength == 80
H3SoftLength == 120
SoftRange == 2            \* range(2) in run_batch_job
max_soft_retries == 2     \* create_article_draft
DefaultMaxRetries == 3
DefaultBackoffBase == 500
NumParams == 5            \* parameters of run_batch_job
NumArgsPassed == 7        \* arguments run_job hands to the background task

(***************************************************************************)
(* Generic helpers.                                                        *)
(***************************************************************************)
RECURSIVE SumSeq(_)
SumSeq(s) == IF s = <<>> THEN 0 ELSE Head(s) + SumSeq(Tail(s))

RECURSIVE Pow2(_)
Pow2(n) == IF n <= 0 THEN 1 ELSE 2 * Pow2(n - 1)

Range(s) == {s[i] : i \in 1..Len(s)}

\* the element of a singleton; {F(x) : x \in {e}} evaluates e once
Only(S) == CHOOSE x \in S : TRUE

\* a is a prefix of b (str.startswith / the head of a substring match)
IsPrefix(a, b) == Len(a) <= Len(b) /\ SubSeq(b, 1, Len(a)) = a

\* str.split("-") on a tuple of characters
RECURSIVE SplitDash(_, _, _)
SplitDash(s, cur, acc) ==
    IF s = <<>> THEN Append(acc, cur)
    ELSE IF Head(s) = "-" THEN SplitDash(Tail(s), <<>>, Append(acc, cur))
    ELSE SplitDash(Tail(s), Append(cur, Head(s)), acc)

Split(s) == SplitDash(s, <<>>, <<>>)

(***************************************************************************)
(* Identifiers, texts, outline.                                            *)
(***************************************************************************)
H2Id(d) == <<"h", "2", "-", d>>
H3Id(p, c) == <<"h", "3", "-", p, "-", c>>

\* a text: len code points that str.strip() keeps, pad code points of leading
\* and trailing whitespace that it removes
PaddedTxt(n, p, a) == [len |-> n, pad |-> p, assertive |-> a]
Txt(n, a) == PaddedTxt(n, 0, a)

\* str.strip()
strip(t) == [t EXCEPT !.pad = 0]

_unicode_len(t) == t.len + t.pad

Line(k, id, n, a) == [k |-> k, id |-> id, len |-> n, assertive |-> a]
H2Line(id) == Line("h2", id, 0, FALSE)
H3Line(id) == Line("h3", id, 0, FALSE)
TxtLine(t) == Line("txt", NoId, _unicode_len(t), t.assertive)
BlankLine == Line("txt", NoId, 0, FALSE)

\* l.strip() is non-empty
NonBlank(l) == l.k # "txt" \/ l.len > 0

(***************************************************************************)
(* assemble_markdown                                                       *)
(***************************************************************************)
RECURSIVE RenderH3Blocks(_)
RenderH3Blocks(blocks) ==
    IF blocks = <<>> THEN <<>>
    ELSE <<H3Line(Head(blocks).id), TxtLine(strip(Head(blocks).body))>>
         \o RenderH3Blocks(Tail(blocks))

\* the lines of "\n".join(parts) + "\n"
_render_section_markdown(section) ==
    <<H2Line(section.h2_id), TxtLine(strip(section.body))>>
    \o RenderH3Blocks(section.h3_blocks)

\* {s.h2_id: s for s in sections}.get(id): the last section with that id, as a
\* sequence of at most one section (empty for None)
SectionMapGet(sections, id) ==
    LET idxs == {i \in 1..Len(sections) : sections[i].h2_id = id}
    IN IF idxs = {} THEN <<>>
       ELSE <<sections[CHOOSE i \in idxs : \A j \in idxs : j <= i]>>

\* str.strip() on the joined document: blank lines at either end are dropped
RECURSIVE StripLines(_)
StripLines(ls) ==
    IF ls = <<>> THEN <<>>
    ELSE IF ~NonBlank(ls[Len(ls)]) THEN StripLines(SubSeq(ls, 1, Len(ls) - 1))
    ELSE IF ~NonBlank(Head(ls)) THEN StripLines(Tail(ls))
    ELSE ls

\* "\n".join(ordered): each rendered section ends with a newline, so the join
\* leaves one blank line between two sections
RECURSIVE JoinRendered(_)
JoinRendered(ordered) ==
    IF ordered = <<>> THEN <<>>
    ELSE IF Len(ordered) = 1 THEN Head(ordered)
    ELSE Head(ordered) \o <<BlankLine>> \o JoinRendered(Tail(ordered))

RECURSIVE OrderedSections(_, _)
OrderedSections(outline, sections) ==
    IF outline = <<>> THEN <<>>
    ELSE LET section == SectionMapGet(sections, Head(outline).id)
         IN (IF section = <<>> THEN <<>>
             ELSE <<_render_section_markdown(section[1])>>)
            \o OrderedSections(Tail(outline), sections)

\* faulty variant: the sections are rendered in the order of the list
assemble_markdown_in_list_order(plan, sections) ==
    StripLines(JoinRendered([i \in 1..Len(sections) |->
                               _render_section_markdown(sections[i])]))

assemble_markdown(plan, sections) ==
    Only({StripLines(JoinRendered(ordered)) :
            ordered \in {OrderedSections(plan.outline, sections)}})

(***************************************************************************)
(* _extract_body_lengths: one forward scan over the lines                  *)
(***************************************************************************)
BodyLen(ls) == SumSeq([i \in 1..Len(ls) |-> IF NonBlank(ls[i]) THEN ls[i].len ELSE 0])

ScanInit ==
    [h2_lengths |-> <<>>, h3_lengths |-> <<>>,
     current_h2_id |-> NoId, current_h2_body |-> <<>>,
     current_h3_body |-> <<>>, in_h3 |-> FALSE, current_h3_id |-> NoId]

flush_h3(st) ==
    [st EXCEPT
       !.h3_lengths =
           IF st.current_h3_body # <<>> /\ st.in_h3 /\ st.current_h3_id # NoId
           THEN Append(@, <<st.current_h3_id, BodyLen(st.current_h3_body)>>)
           ELSE @,
       !.current_h3_body = <<>>,
       !.in_h3 = FALSE,
       !.current_h3_id = NoId]

flush_h2(st) ==
    [st EXCEPT
       !.h2_lengths =
           IF st.current_h2_id # NoId
           THEN Append(@, <<st.current_h2_id,
                            BodyLen(SelectSeq(st.current_h2_body,
                                              LAMBDA l : l.k # "h3"))>>)
           ELSE @,
       !.current_h2_body = <<>>]

ScanLine(st, line) ==
    IF line.k = "h2"
    THEN [flush_h2(flush_h3(st)) EXCEPT !.current_h2_id = line.id, !.in_h3 = FALSE]
    ELSE IF line.k = "h3"
    THEN [flush_h3(st) EXCEPT !.current_h3_body = <<>>, !.in_h3 = TRUE,
                              !.current_h3_id = line.id]
    ELSE [st EXCEPT
            !.current_h3_body = IF st.in_h3 THEN Append(@, line) ELSE @,
            !.current_h2_body = IF st.current_h2_id # NoId THEN Append(@, line) ELSE @]

RECURSIVE ScanLines(_, _)
ScanLines(st, ls) ==
    IF ls = <<>> THEN st
    ELSE Only({ScanLines(next, Tail(ls)) : next \in {ScanLine(st, Head(ls))}})

\* faulty variant: the blocks open at the end of the document are not flushed
_extract_body_lengths_unflushed(markdown) ==
    Only({[h2 |-> st.h2_lengths, h3 |-> st.h3_lengths] :
            st \in {ScanLines(ScanInit, markdown)}})

_extract_body_lengths(markdown) ==
    Only({[h2 |-> st.h2_lengths, h3 |-> st.h3_lengths] :
            st \in {flush_h2(flush_h3(ScanLines(ScanInit, markdown)))}})

_assertive_language_present(markdown) ==
    \E i \in 1..Len(markdown) : markdown[i].assertive

(***************************************************************************)
(* run_qc                                                                  *)
(***************************************************************************)
\* an issue message: its fixed wording and the number or identifier formatted into it
Msg(text, n, id) == [text |-> text, n |-> n, id |-> id]

QcIssue(message, severity, target_id, metric) ==
    [message |-> message, severity |-> severity,
     target_id |-> target_id, metric |-> metric]

\* faulty variant: the length of the first entry stands for the minimum
MinLengthOfFirst(lengths) == IF lengths = <<>> THEN 0 ELSE lengths[1][2]

MinLength(lengths) ==
    IF lengths = <<>> THEN 0
    ELSE CHOOSE m \in {lengths[i][2] : i \in 1..Len(lengths)} :
             \A i \in 1..Len(lengths) : m <= lengths[i][2]

\* f"id:{oid}" in markdown: the id comment of some heading starts with oid
MarkdownHasId(markdown, oid) ==
    \E i \in 1..Len(markdown) :
        markdown[i].k \in {"h2", "h3"} /\ IsPrefix(oid, markdown[i].id)

RECURSIVE AllH3(_)
AllH3(outline) ==
    IF outline = <<>> THEN <<>> ELSE Head(outline).h3 \o AllH3(Tail(outline))

\* first occurrences only: the ids are collected in a set
RECURSIVE Dedup(_, _)
Dedup(s, seen) ==
    IF s = <<>> THEN <<>>
    ELSE IF Head(s) \in seen THEN Dedup(Tail(s), seen)
    ELSE <<Head(s)>> \o Dedup(Tail(s), seen \cup {Head(s)})

VARIABLE hash_seed    \* the string hash seed of the process

\* iteration order of a set of strings: fixed within one process by the hash
\* seed, different from one process to another
SetOrder(s) == IF hash_seed = 0 THEN s ELSE [i \in 1..Len(s) |-> s[Len(s) + 1 - i]]

H3Issues(h3_lengths) ==
    LET flagged == SelectSeq(h3_lengths, LAMBDA e : e[2] < H3SoftLength)
    IN [i \in 1..Len(flagged) |->
          IF flagged[i][2] < H3HardLength
          THEN QcIssue(Msg("h3_short", flagged[i][2], NoId), "hard", flagged[i][1], "h3_length")
          ELSE QcIssue(Msg("h3_short_soft", flagged[i][2], NoId), "soft", flagged[i][1], "h3_length")]

QcReport(draft, lens) ==
    LET h2_lengths == lens.h2
        h3_lengths == lens.h3
        h2_count == Len(h2_lengths)
        h3_count == Len(h3_lengths)
        meta_description_length == _unicode_len(strip(draft.meta_description))
        markdown_length == SumSeq([i \in 1..Len(draft.markdown) |-> draft.markdown[i].len])
        min_h2_length == MinLength(h2_lengths)
        min_h3_length == MinLength(h3_lengths)
        assertive == _assertive_language_present(draft.markdown)
        metaIssue ==
            IF ~(MetaMin <= meta_description_length /\ meta_description_length <= MetaMax)
            THEN <<QcIssue(Msg("meta_out_of_range", meta_description_length, NoId),
                           "hard", NoId, "meta_description_length")>>
            ELSE <<>>
        countIssue ==
            IF ~(H2CountMin <= h2_count /\ h2_count <= H2CountMax)
            THEN <<QcIssue(Msg("h2_count_out_of_range", h2_count, NoId), "hard", NoId, "h2_count")>>
            ELSE <<>>
        minH2Issue ==
            IF min_h2_length < MinH2Length
            THEN LET hits == {i \in 1..Len(h2_lengths) : h2_lengths[i][2] = min_h2_length}
                     target == IF hits = {} THEN NoId
                               ELSE h2_lengths[CHOOSE i \in hits : \A j \in hits : i <= j][1]
                 IN <<QcIssue(Msg("h2_short", min_h2_length, NoId), "hard", target, "min_h2_length")>>
            ELSE <<>>
        assertiveIssue ==
            IF assertive
            THEN <<QcIssue(Msg("assertive_found", NoInt, NoId), "soft", NoId, "assertive_language_found")>>
            ELSE <<>>
        outline_ids == SetOrder(Dedup([i \in 1..Len(draft.outline) |-> draft.outline[i].id], {}))
        missing_ids == SelectSeq(outline_ids, LAMBDA oid : ~MarkdownHasId(draft.markdown, oid))
        missingIssues ==
            [i \in 1..Len(missing_ids) |->
               QcIssue(Msg("outline_id_missing", NoInt, missing_ids[i]), "hard", missing_ids[i], "outline_id")]
        h3_all == AllH3(draft.outline)
        h3_outline_ids == SetOrder(Dedup([i \in 1..Len(h3_all) |-> h3_all[i].id], {}))
        missing_h3_ids == SelectSeq(h3_outline_ids, LAMBDA hid : ~MarkdownHasId(draft.markdown, hid))
        missingH3Issues ==
            [i \in 1..Len(missing_h3_ids) |->
               QcIssue(Msg("h3_id_missing", NoInt, missing_h3_ids[i]), "hard", missing_h3_ids[i], "outline_h3_id")]
        issues == metaIssue \o countIssue \o minH2Issue \o H3Issues(h3_lengths)
                  \o assertiveIssue \o missingIssues \o missingH3Issues
        hard_failed == \E i \in 1..Len(issues) : issues[i].severity = "hard"
        soft_failed == \E i \in 1..Len(issues) : issues[i].severity = "soft"
    IN [hard_failed |-> hard_failed,
        soft_failed |-> soft_failed,
        issues |-> issues,
        measurements |->
            [meta_description_length |-> meta_description_length,
             markdown_length |-> markdown_length,
             h2_count |-> h2_count,
             h3_count |-> h3_count,
             min_h2_length |-> min_h2_length,
             min_h3_length |-> min_h3_length,
             faq_count |-> Len(draft.faq),
             assertive_language_found |-> assertive,
             regenerate_required |-> hard_failed]]

run_qc(draft) ==
    Only({QcReport(draft, lens) : lens \in {_extract_body_lengths(draft.markdown)}})

(***************************************************************************)
(* Plans and the language model's answers.                                 *)
(*                                                                         *)
(* An answer of a collaborator is a record; raises = TRUE means the call   *)
(* raised.  json is "invalid" (json.loads raises JSONDecodeError),         *)
(* "object" (a JSON object) or "other" (valid JSON that is no object).     *)
(***************************************************************************)
Digits == <<"1", "2", "3", "4">>

\* the outline every parsed plan carries: four sections, the second with one
\* sub-heading
TheOutline ==
    [i \in 1..4 |->
       [id |-> H2Id(Digits[i]),
        h3 |-> IF i = 2 THEN <<[id |-> H3Id("2", "1")]>> ELSE <<>>]]

MetaLens == {79, 100}
BodyLens == {299, 300}
H3Lens == {79, 100, 120}

\* site_adapter.parse_plan_response(raw) for the seed title of the brief
PlanChoices(title) ==
    {[title |-> title, slug |-> title, meta_description |-> Txt(m, FALSE),
      outline |-> TheOutline] : m \in MetaLens}

\* site_adapter.parse_section_response(raw, outline_item)
SectionFor(item, b, h) ==
    [h2_id |-> item.id, body |-> Txt(b, FALSE),
     h3_blocks |-> [j \in 1..Len(item.h3) |-> [id |-> item.h3[j].id, body |-> Txt(h, FALSE)]]]

\* the sections the model writes for one article: one body length for the
\* sections and one for the sub-sections
SectionSets(plan) ==
    {[i \in 1..Len(plan.outline) |-> SectionFor(plan.outline[i], b, h)] :
        b \in BodyLens, h \in H3Lens}

Raises == [raises |-> TRUE, json |-> "invalid", fix_targets |-> <<>>,
           sections |-> <<>>, faq |-> <<>>, faq_is_list |-> FALSE]
Answer(json, targets, sections, faq, isList) ==
    [raises |-> FALSE, json |-> json, fix_targets |-> targets,
     sections |-> sections, faq |-> faq, faq_is_list |-> isList]

SoftQcAnswers ==
    {Raises,
     Answer("invalid", <<>>, <<>>, <<>>, FALSE),
     Answer("other", <<>>, <<>>, <<>>, FALSE),
     Answer("object", <<>>, <<>>, <<>>, FALSE),
     Answer("object", <<H2Id("2")>>, <<>>, <<>>, FALSE)}

ReviseAnswers(plan, targets) ==
    {Raises,
     Answer("invalid", <<>>, <<>>, <<>>, FALSE),
     Answer("other", <<>>, <<>>, <<>>, FALSE)}
    \cup {Answer("object", <<>>, <<SectionFor(plan.outline[i], b, h)>>, <<>>, FALSE) :
            i \in {j \in 1..Len(plan.outline) : plan.outline[j].id \in Range(targets)},
            b \in BodyLens, h \in H3Lens}

FaqAnswers ==
    {Raises,
     Answer("invalid", <<>>, <<>>, <<>>, FALSE),
     Answer("other", <<>>, <<>>, <<>>, FALSE),
     Answer("object", <<>>, <<>>, <<"qa">>, FALSE),
     Answer("object", <<>>, <<>>, <<"qa">>, TRUE),
     Answer("object", <<>>, <<>>, <<>>, TRUE)}

\* the call raises: the collaborator itself, or .get() on a value that is no dict
CallRaises(ans) == ans.raises \/ ans.json = "other"

(***************************************************************************)
(* LLMOrchestrator                                                         *)
(***************************************************************************)
Draft(plan, markdown, sections, faq, check) ==
    [title |-> plan.title, slug |-> plan.slug,
     meta_description |-> plan.meta_description,
     outline |-> plan.outline, markdown |-> markdown,
     sections |-> sections, faq |-> faq, quality_self_check |-> check]

\* draft_article: the draft and its report, for the sections the model wrote
WithReport(draft) ==
    Only({[draft |-> [draft EXCEPT !.quality_self_check = <<qc.measurements>>],
           qc_report |-> qc] : qc \in {run_qc(draft)}})

draft_article(plan, sections) ==
    Only({WithReport(draft) :
            draft \in {Draft(plan, assemble_markdown(plan, sections), sections, <<>>, <<>>)}})

ReviseTargets(issue) ==
    (IF issue.metric \in {"min_h2_length", "outline_id"} /\ issue.target_id # NoId
     THEN <<issue.target_id>> ELSE <<>>)
    \o
    (IF issue.metric \in {"h3_length", "outline_h3_id"} /\ issue.target_id # NoId
     THEN LET parent_h2 == IF "-" \in Range(issue.target_id)
                           THEN Split(issue.target_id)[2] ELSE <<>>
          IN IF parent_h2 # <<>> THEN <<<<"h", "2", "-">> \o parent_h2>> ELSE <<>>
     ELSE <<>>)

RECURSIVE Flatten(_)
Flatten(ss) == IF ss = <<>> THEN <<>> ELSE Head(ss) \o Flatten(Tail(ss))

\* faulty variant: hard_fail keeps the default of ReviseRequest
reviseDefaultHardFail(draft, report) ==
    [sections_to_regenerate |->
         Flatten([i \in 1..Len(report.issues) |-> ReviseTargets(report.issues[i])]),
     reasons |-> [i \in 1..Len(report.issues) |-> report.issues[i].message],
     hard_fail |-> FALSE]

\* faulty variant: the reasons list only the hard issues
reviseHardReasonsOnly(draft, report) ==
    [sections_to_regenerate |->
         Flatten([i \in 1..Len(report.issues) |-> ReviseTargets(report.issues[i])]),
     reasons |-> LET hard == SelectSeq(report.issues, LAMBDA issue : issue.severity = "hard")
                 IN [i \in 1..Len(hard) |-> hard[i].message],
     hard_fail |-> report.hard_failed]

revise(draft, qc_report) ==
    [sections_to_regenerate |->
         Flatten([i \in 1..Len(qc_report.issues) |-> ReviseTargets(qc_report.issues[i])]),
     reasons |-> [i \in 1..Len(qc_report.issues) |-> qc_report.issues[i].message],
     hard_fail |-> qc_report.hard_failed]

\* the dict _soft_qc returns; only fix_targets decides what follows
_soft_qc(ans) ==
    IF ans.json = "invalid" THEN [fix_targets |-> <<>>] ELSE [fix_targets |-> ans.fix_targets]

\* faulty variant: every regenerated section without a base section is appended
_replace_sections_appends_all(base_sections, replacements) ==
    LET get(id) == SectionMapGet(replacements, id)
        result == [i \in 1..Len(base_sections) |->
                     IF get(base_sections[i].h2_id) = <<>> THEN base_sections[i]
                     ELSE get(base_sections[i].h2_id)[1]]
    IN result \o SelectSeq(replacements, LAMBDA sec :
                    ~\E i \in 1..Len(result) : result[i].h2_id = sec.h2_id)

_replace_sections(base_sections, replacements) ==
    LET keys == Dedup([i \in 1..Len(replacements) |-> replacements[i].h2_id], {})
        get(id) == SectionMapGet(replacements, id)
        result == [i \in 1..Len(base_sections) |->
                     IF get(base_sections[i].h2_id) = <<>> THEN base_sections[i]
                     ELSE get(base_sections[i].h2_id)[1]]
        fresh == SelectSeq(keys, LAMBDA id :
                     ~\E i \in 1..Len(result) : result[i].h2_id = id)
    IN result \o [i \in 1..Len(fresh) |-> get(fresh[i])[1]]

_apply_revise(draft, plan, ans) ==
    LET new_sections == IF ans.json = "invalid" THEN <<>> ELSE ans.sections
    IN Only({WithReport(revised) :
               revised \in {[draft EXCEPT !.markdown = assemble_markdown(plan, merged_sections),
                                          !.sections = merged_sections,
                                          !.outline = plan.outline] :
                              merged_sections \in {_replace_sections(draft.sections, new_sections)}}})

generate_faq(ans) ==
    IF ans.json = "invalid" THEN <<>>
    ELSE IF ans.faq_is_list THEN ans.faq ELSE <<>>

(***************************************************************************)
(* State.                                                                  *)
(***************************************************************************)
VARIABLES
    pc,                \* position of the single thread of control
    job,               \* the JobState object of the job id
    store,             \* "ref": the job store maps the job id to that object
    clock,             \* what _now_iso() reads next
    desired_count,     \* batch_brief.desired_count
    items,             \* batch_plan.items
    idx,               \* index of the item being processed (0-based)
    successful_plans,  \* plans of the items recorded so far
    plan_ctx,          \* the existing_* context handed to the last plan_article call
    plan, draft, qc_report,
    attempt,           \* iterations of the soft-revision loop begun so far
    targets,           \* fix targets of the last soft-QC opinion
    result,            \* the JobResultItem under construction
    revise_request,    \* create_article_draft's third return value (<<>>: None)
    exc,               \* the exception caught at the batch boundary
    errs,              \* history: every exception raised, in order
    calls,             \* history: calls made for the current article
    published,         \* history: item indexes handed to create_draft
    last_hard,         \* history: per drafted item, hard_failed of its latest report
    max_retries, backoff_base,   \* WordPressClient configuration
    wpc,               \* position inside create_draft
    wp_attempt, last_error, last_status,
    sleeps,            \* history: the time.sleep() durations of this call
    responses,         \* history: what each POST of this call met
    wp_result,         \* the WordPressPostResult returned
    raw,               \* the parsed text the language model returned last
    qc_again,          \* the report of a second run_qc call on the same draft
    da_sections,       \* draft_article's local list `sections`, generated so far
    contexts           \* history: the arguments of each draft_section call

vars == <<pc, job, store, clock, desired_count, items, idx, successful_plans,
          plan_ctx, plan, draft, qc_report, attempt, targets, result,
          revise_request, exc, errs, calls, published, last_hard,
          max_retries, backoff_base, wpc, wp_attempt, last_error, last_status,
          sleeps, responses, wp_result, hash_seed, raw, qc_again,
          da_sections, contexts>>

jobVars == <<job, store, clock, desired_count, items, idx, successful_plans,
             plan_ctx, result, exc, published, last_hard>>
articleVars == <<plan, draft, qc_report, attempt, targets, calls>>
wpConfig == <<max_retries, backoff_base>>
pureVars == <<hash_seed, raw, qc_again>>
draftVars == <<da_sections, contexts>>
wpVars == <<wpc, wp_attempt, last_error, last_status, sleeps, responses, wp_result>>

Null == [null |-> TRUE]
NoMsg == Msg(None, NoInt, NoId)
NoCalls == [soft_qc |-> 0, revise |-> 0, faq |-> 0]

JobState(status, total) ==
    [status |-> status, total |-> total, current |-> 0, logs |-> <<>>,
     results |-> <<>>, started_at |-> NoInt, finished_at |-> NoInt]

JobResultItem(index, title) ==
    [index |-> index, title |-> title, draft_ok |-> FALSE, error |-> <<>>,
     wp_ok |-> FALSE, wp_post_id |-> NoInt, wp_url |-> None]

WordPressPostResult(success, post_id, url, error_message, status_code) ==
    [success |-> success, post_id |-> post_id, url |-> url,
     error_message |-> error_message, status_code |-> status_code]

LogLine(kind, n, total, error, url) ==
    [kind |-> kind, n |-> n, total |-> total, error |-> error, url |-> url]

ItemTitle(i) == <<"title", i>>

BackoffBases == {DefaultBackoffBase, 2 * DefaultBackoffBase}

Init ==
    /\ pc = "init"
    /\ job = Null
    /\ store = "absent"
    /\ clock = 1
    /\ desired_count \in 1..MaxItems
    /\ items = <<>>
    /\ idx = 0
    /\ successful_plans = <<>>
    /\ plan_ctx = Null
    /\ plan = Null
    /\ draft = Null
    /\ qc_report = Null
    /\ attempt = 0
    /\ targets = <<>>
    /\ result = Null
    /\ revise_request = <<>>
    /\ exc = None
    /\ errs = <<>>
    /\ calls = NoCalls
    /\ published = <<>>
    /\ last_hard = <<>>
    /\ max_retries = DefaultMaxRetries
    /\ backoff_base = DefaultBackoffBase
    /\ wpc = "idle"
    /\ wp_attempt = 0
    /\ last_error = NoMsg
    /\ last_status = NoInt
    /\ sleeps = <<>>
    /\ responses = <<>>
    /\ wp_result = Null
    /\ hash_seed = 0
    /\ raw = Null
    /\ qc_again = Null
    /\ da_sections = <<>>
    /\ contexts = <<>>

(***************************************************************************)
(* app/server.py: the submission surface.                                  *)
(***************************************************************************)
\* run_job: create the queued job and schedule the background task
run_job ==
    /\ pc = "init"
    /\ job' = JobState("queued", desired_count)
    /\ store' = "ref"
    /\ pc' = "srv_task"
    /\ UNCHANGED <<clock, desired_count, items, idx, successful_plans, plan_ctx,
                   result, exc, errs, published, last_hard>>
    /\ UNCHANGED <<articleVars, revise_request, wpConfig, pureVars, draftVars, wpVars>>

\* the background task calls run_batch_job with the arguments run_job gave it;
\* a call whose argument count differs from the parameter count raises TypeError
BackgroundTask ==
    /\ pc = "srv_task"
    /\ IF NumArgsPassed = NumParams
       THEN pc' = "rbj_start" /\ errs' = errs
       ELSE pc' = "task_raised" /\ errs' = Append(errs, "TypeError")
    /\ UNCHANGED <<jobVars, articleVars, revise_request, wpConfig, pureVars, draftVars, wpVars>>

\* a caller that passes run_batch_job its five parameters (the WordPressClient
\* built with its defaults), for a job id that is absent from the store or was
\* created as queued
CallRunBatchJob ==
    /\ pc = "init"
    /\ \E created \in BOOLEAN :
         IF created
         THEN job' = JobState("queued", desired_count) /\ store' = "ref"
         ELSE UNCHANGED <<job, store>>
    /\ pc' = "rbj_start"
    /\ UNCHANGED <<clock, desired_count, items, idx, successful_plans, plan_ctx,
                   result, exc, errs, published, last_hard>>
    /\ UNCHANGED <<articleVars, revise_request, wpConfig, pureVars, draftVars, wpVars>>

(***************************************************************************)
(* usecases/run_batch_job.py                                               *)
(***************************************************************************)
\* orchestrator.batch_plan(batch_brief).items for a plan of n articles
BatchItems(n) ==
    [i \in 1..n |->
       [title |-> ItemTitle(i), angle |-> <<"angle", i>>,
        avoid_overlap_with |-> <<<<"avoid", i>>>>]]

_batch_item_to_brief(item) ==
    [seed_title |-> item.title,
     constraints |-> [angle |-> item.angle,
                      avoid_overlap_with |-> item.avoid_overlap_with]]

\* getattr(p, "constraints", None) is a dict only if the plan has that attribute
RECURSIVE _collect_existing(_)
_collect_existing(plans) ==
    IF plans = <<>> THEN [titles |-> <<>>, angles |-> <<>>, avoid |-> <<>>]
    ELSE LET p == plans[Len(plans)]
             rest == _collect_existing(SubSeq(plans, 1, Len(plans) - 1))
             has == "constraints" \in DOMAIN p
         IN [titles |-> Append(rest.titles, p.title),
             angles |-> IF has THEN Append(rest.angles, p.constraints.angle)
                        ELSE rest.angles,
             avoid |-> IF has THEN rest.avoid \o p.constraints.avoid_overlap_with
                       ELSE rest.avoid]

_append_log(j, message) == [j EXCEPT !.logs = Append(@, message)]

\* an exception raised inside the try block reaches the except clause
Caught(label) ==
    /\ pc' = "rbj_except"
    /\ exc' = label
    /\ errs' = Append(errs, label)

\* faulty variant: the loop is left after an item whose draft failed
LoopHeadBreaksOnFailure(i, its) ==
    IF i < Len(its) /\ (job.results = <<>> \/ job.results[Len(job.results)].draft_ok)
    THEN "rbj_plan" ELSE "rbj_finish"

LoopHead(i, its) == IF i < Len(its) THEN "rbj_plan" ELSE "rbj_finish"

\* faulty variant: a hard-failed report does not stop the phases of the item
AfterReportIgnoresHard(qc, a) ==
    IF a < SoftRange /\ qc.soft_failed THEN "rbj_soft_qc" ELSE "rbj_faq"

\* where run_batch_job goes after a report, a loop iterations having been begun
AfterReport(qc, a) ==
    IF qc.hard_failed THEN "rbj_result"
    ELSE IF a < SoftRange /\ qc.soft_failed THEN "rbj_soft_qc"
    ELSE "rbj_faq"

\* lines 66-70
RbjStart ==
    /\ pc = "rbj_start"
    /\ \E o \in {"ok", "get_raises", "create_raises"} :
         IF o = "get_raises"
         THEN /\ pc' = "rbj_raised"
              /\ errs' = Append(errs, "job_store.get")
              /\ UNCHANGED <<job, store, clock>>
         ELSE LET found == IF store = "ref" THEN job
                           ELSE JobState("queued", desired_count)
              IN /\ job' = [found EXCEPT !.status = "running",
                                         !.started_at = clock,
                                         !.total = desired_count]
                 /\ clock' = clock + 1
                 /\ IF o = "create_raises"
                    THEN /\ pc' = "rbj_raised"
                         /\ errs' = Append(errs, "job_store.create")
                         /\ store' = store
                    ELSE /\ pc' = "rbj_batch_plan"
                         /\ errs' = errs
                         /\ store' = "ref"
    /\ UNCHANGED <<desired_count, items, idx, successful_plans, plan_ctx, result,
                   exc, published, last_hard>>
    /\ UNCHANGED <<articleVars, revise_request, wpConfig, pureVars, draftVars, wpVars>>

\* lines 73-76
RbjBatchPlan ==
    /\ pc = "rbj_batch_plan"
    /\ \/ /\ Caught("batch_plan")
          /\ UNCHANGED <<job, items>>
       \/ \E n \in 0..MaxItems :
            /\ items' = BatchItems(n)
            /\ job' = [job EXCEPT !.total = n]
            /\ \/ Caught("job_store.update")
               \/ /\ pc' = LoopHead(0, items')
                  /\ UNCHANGED <<exc, errs>>
    /\ idx' = 0
    /\ successful_plans' = <<>>
    /\ UNCHANGED <<store, clock, desired_count, plan_ctx, result, published, last_hard>>
    /\ UNCHANGED <<articleVars, revise_request, wpConfig, pureVars, draftVars, wpVars>>

\* lines 79-86
RbjPlan ==
    /\ pc = "rbj_plan"
    /\ LET brief == _batch_item_to_brief(items[idx + 1])
       IN /\ plan_ctx' = _collect_existing(successful_plans)
          /\ \/ /\ Caught("plan_article")
                /\ plan' = plan
             \/ /\ plan' \in PlanChoices(brief.seed_title)
                /\ pc' = "rbj_draft"
                /\ UNCHANGED <<exc, errs>>
    /\ UNCHANGED <<job, store, clock, desired_count, items, idx, successful_plans,
                   result, published, last_hard>>
    /\ UNCHANGED <<draft, qc_report, attempt, targets, calls>>
    /\ UNCHANGED <<revise_request, wpConfig, pureVars, draftVars, wpVars>>

\* line 88
RbjDraft ==
    /\ pc = "rbj_draft"
    /\ \/ /\ Caught("draft_article")
          /\ UNCHANGED <<draft, qc_report, last_hard>>
       \/ \E sections \in SectionSets(plan) :
            \E r \in {draft_article(plan, sections)} :
               /\ draft' = r.draft
               /\ qc_report' = r.qc_report
               /\ last_hard' = Append(last_hard, r.qc_report.hard_failed)
               /\ pc' = AfterReport(r.qc_report, 0)
               /\ UNCHANGED <<exc, errs>>
    /\ attempt' = 0
    /\ UNCHANGED <<plan, targets, calls>>
    /\ UNCHANGED <<job, store, clock, desired_count, items, idx, successful_plans,
                   plan_ctx, result, published>>
    /\ UNCHANGED <<revise_request, wpConfig, pureVars, draftVars, wpVars>>

\* lines 92-100: one soft-QC opinion
RbjSoftQc ==
    /\ pc = "rbj_soft_qc"
    /\ calls' = [calls EXCEPT !.soft_qc = @ + 1]
    /\ \E ans \in SoftQcAnswers :
         IF CallRaises(ans)
         THEN /\ Caught("_soft_qc")
              /\ targets' = targets
         ELSE /\ targets' = _soft_qc(ans).fix_targets
              /\ pc' = IF targets' = <<>> THEN "rbj_faq" ELSE "rbj_revise"
              /\ UNCHANGED <<exc, errs>>
    /\ UNCHANGED <<job, store, clock, desired_count, items, idx, successful_plans,
                   plan_ctx, result, published, last_hard>>
    /\ UNCHANGED <<plan, draft, qc_report, attempt>>
    /\ UNCHANGED <<revise_request, wpConfig, pureVars, draftVars, wpVars>>

\* lines 101-103: one regeneration
RbjRevise ==
    /\ pc = "rbj_revise"
    /\ calls' = [calls EXCEPT !.revise = @ + 1]
    /\ \E ans \in ReviseAnswers(plan, targets) :
         IF CallRaises(ans)
         THEN /\ Caught("_apply_revise")
              /\ UNCHANGED <<draft, qc_report, attempt, last_hard>>
         ELSE \E r \in {_apply_revise(draft, plan, ans)} :
                 /\ draft' = r.draft
                 /\ qc_report' = r.qc_report
                 /\ last_hard' = [last_hard EXCEPT ![idx + 1] = r.qc_report.hard_failed]
                 /\ attempt' = attempt + 1
                 /\ pc' = AfterReport(r.qc_report, attempt + 1)
                 /\ UNCHANGED <<exc, errs>>
    /\ UNCHANGED <<job, store, clock, desired_count, items, idx, successful_plans,
                   plan_ctx, result, published>>
    /\ UNCHANGED <<plan, targets>>
    /\ UNCHANGED <<revise_request, wpConfig, pureVars, draftVars, wpVars>>

\* lines 105-108
RbjFaq ==
    /\ pc = "rbj_faq"
    /\ calls' = [calls EXCEPT !.faq = @ + 1]
    /\ \E ans \in FaqAnswers :
         IF CallRaises(ans)
         THEN /\ Caught("generate_faq")
              /\ UNCHANGED <<draft, qc_report, last_hard>>
         ELSE \E r \in {WithReport([draft EXCEPT !.faq = generate_faq(ans)])} :
                 /\ draft' = r.draft
                 /\ qc_report' = r.qc_report
                 /\ last_hard' = [last_hard EXCEPT ![idx + 1] = r.qc_report.hard_failed]
                 /\ pc' = "rbj_result"
                 /\ UNCHANGED <<exc, errs>>
    /\ UNCHANGED <<job, store, clock, desired_count, items, idx, successful_plans,
                   plan_ctx, result, published>>
    /\ UNCHANGED <<plan, attempt, targets>>
    /\ UNCHANGED <<revise_request, wpConfig, pureVars, draftVars, wpVars>>

\* "; ".join of the issue messages
JoinMessages(issues) == [i \in 1..Len(issues) |-> issues[i].message]

\* lines 110-118: the result item, and either the failure log or the call of
\* wp_client.create_draft; the draft and its report are not read after this
\* (the payload is built from the draft as create_draft is entered)
RbjResult ==
    /\ pc = "rbj_result"
    /\ LET r == JobResultItem(idx, draft.title)
       IN IF qc_report.hard_failed
          THEN LET error == JoinMessages(qc_report.issues)
               IN /\ result' = [r EXCEPT !.draft_ok = FALSE, !.error = error]
                  /\ job' = _append_log(job, LogLine("draft_failed", idx + 1, job.total,
                                                      error, None))
                  /\ pc' = "rbj_append"
                  /\ UNCHANGED <<published, wpc>>
          ELSE /\ result' = [r EXCEPT !.draft_ok = TRUE]
               /\ published' = Append(published, idx)
               /\ wpc' = "payload"
               /\ pc' = "rbj_publishing"
               /\ UNCHANGED job
    /\ last_hard' = last_hard
    /\ draft' = Null
    /\ qc_report' = Null
    /\ attempt' = 0
    /\ targets' = <<>>
    /\ calls' = NoCalls
    /\ UNCHANGED <<store, clock, desired_count, items, idx, successful_plans,
                   plan_ctx, exc, errs, plan, revise_request, wpConfig, pureVars, draftVars>>
    /\ UNCHANGED <<wp_attempt, last_error, last_status, sleeps, responses, wp_result>>

(***************************************************************************)
(* infrastructure/wordpress/client.py: WordPressClient.create_draft        *)
(***************************************************************************)
HttpResponse(status, body) ==
    [kind |-> "http", status |-> status, body |-> body,
     id |-> IF body = "object" THEN 101 ELSE NoInt,
     link |-> IF body = "object" THEN "link" ELSE None]

\* httpx.RequestError raised by client.post
TransportFailure ==
    [kind |-> "transport", status |-> NoInt, body |-> None, id |-> NoInt, link |-> None]

\* what one POST can meet; body is "object" (a JSON object), "array" (valid JSON
\* that is no object) or "invalid" (no JSON)
Responses ==
    {HttpResponse(200, "object"), HttpResponse(200, "array"), HttpResponse(200, "invalid"),
     HttpResponse(500, "object"), HttpResponse(503, "invalid"), TransportFailure}

Is2xx(status) == 200 <= status /\ status < 300

\* _format_error never raises: a body that is no JSON object falls back to the text
_format_error(response) == Msg("HTTP", response.status, NoId)

\* faulty variant: a transport failure clears the status
NextLastStatusOfAttempt(prev, response) ==
    IF response.kind = "http" THEN response.status ELSE NoInt

\* line 82: last_status follows the responses; a transport failure leaves it
NextLastStatus(prev, response) ==
    IF response.kind = "http" THEN response.status ELSE prev

\* lines 91 and 93
NextLastError(prev, response) ==
    IF response.kind = "http" THEN _format_error(response)
    ELSE Msg("transport", NoInt, NoId)

\* faulty variant: linear backoff
SleepSecondsLinear(base, att) == base * att

\* time.sleep argument after the attempt-th POST
SleepSeconds(base, att) == base * Pow2(att - 1)

\* lines 74-77 and the first evaluation of the range
WpBuildPayload ==
    /\ wpc = "payload"
    /\ \/ /\ wpc' = "raised"
          /\ errs' = Append(errs, "_build_payload")
          /\ UNCHANGED <<wp_attempt, wp_result>>
       \/ /\ errs' = errs
          /\ wp_attempt' = 1
          /\ IF 1 <= max_retries
             THEN wpc' = "post" /\ wp_result' = wp_result
             ELSE /\ wpc' = "returned"
                  /\ wp_result' = WordPressPostResult(FALSE, NoInt, None, NoMsg, NoInt)
    /\ last_error' = NoMsg
    /\ last_status' = NoInt
    /\ sleeps' = <<>>
    /\ responses' = <<>>
    /\ UNCHANGED <<pc, jobVars, articleVars, revise_request, wpConfig, pureVars, draftVars>>

\* lines 80-94 and 98-102: one POST; after the last one, the failure result
WpPost ==
    /\ wpc = "post"
    /\ \E response \in Responses :
         /\ responses' = Append(responses, response)
         /\ last_status' = NextLastStatus(last_status, response)
         /\ IF response.kind = "http" /\ Is2xx(response.status)
            THEN /\ last_error' = last_error
                 /\ IF response.body = "object"
                    THEN /\ wp_result' = WordPressPostResult(TRUE, response.id, response.link,
                                                             NoMsg, response.status)
                         /\ wpc' = "returned"
                         /\ errs' = errs
                    ELSE /\ wpc' = "raised"
                         /\ errs' = Append(errs, "response.json")
                         /\ wp_result' = wp_result
            ELSE /\ last_error' = NextLastError(last_error, response)
                 /\ errs' = errs
                 /\ IF wp_attempt < max_retries
                    THEN wpc' = "sleep" /\ wp_result' = wp_result
                    ELSE /\ wpc' = "returned"
                         /\ wp_result' = WordPressPostResult(FALSE, NoInt, None,
                                                             last_error', last_status')
    /\ UNCHANGED <<wp_attempt, sleeps>>
    /\ UNCHANGED <<pc, jobVars, articleVars, revise_request, wpConfig, pureVars, draftVars>>

\* lines 95-96, then the next iteration of the range
WpSleep ==
    /\ wpc = "sleep"
    /\ sleeps' = Append(sleeps, SleepSeconds(backoff_base, wp_attempt))
    /\ wp_attempt' = wp_attempt + 1
    /\ wpc' = "post"
    /\ UNCHANGED <<last_error, last_status, responses, wp_result, errs>>
    /\ UNCHANGED <<pc, jobVars, articleVars, revise_request, wpConfig, pureVars, draftVars>>

WpIdle ==
    /\ wpc' = "idle"
    /\ wp_attempt' = 0
    /\ last_error' = NoMsg
    /\ last_status' = NoInt
    /\ sleeps' = <<>>
    /\ responses' = <<>>
    /\ wp_result' = Null

(***************************************************************************)
(* run_batch_job, continued                                                *)
(***************************************************************************)
\* lines 118-126: create_draft has returned or raised
RbjPublished ==
    /\ pc = "rbj_publishing"
    /\ wpc \in {"returned", "raised"}
    /\ IF wpc = "raised"
       THEN /\ pc' = "rbj_except"
            /\ exc' = "create_draft"
            /\ UNCHANGED <<result, job>>
       ELSE LET error == IF wp_result.error_message = NoMsg THEN <<>>
                         ELSE <<wp_result.error_message>>
                r == [result EXCEPT !.wp_ok = wp_result.success,
                                    !.wp_post_id = wp_result.post_id,
                                    !.wp_url = wp_result.url,
                                    !.error = error]
            IN /\ result' = r
               /\ job' = _append_log(job,
                            IF r.wp_ok
                            THEN LogLine("wp_created", idx + 1, job.total, <<>>, r.wp_url)
                            ELSE LogLine("wp_failed", idx + 1, job.total, r.error, None))
               /\ pc' = "rbj_append"
               /\ exc' = exc
    /\ WpIdle
    /\ UNCHANGED <<store, clock, desired_count, items, idx, successful_plans,
                   plan_ctx, errs, published, last_hard>>
    /\ UNCHANGED <<articleVars, revise_request, wpConfig, pureVars, draftVars>>

\* line 128
RbjAppendResult ==
    /\ pc = "rbj_append"
    /\ job' = [job EXCEPT !.results = Append(@, result)]
    /\ pc' = "rbj_incr"
    /\ UNCHANGED <<store, clock, desired_count, items, idx, successful_plans,
                   plan_ctx, result, exc, errs, published, last_hard>>
    /\ UNCHANGED <<articleVars, revise_request, wpConfig, pureVars, draftVars, wpVars>>

\* faulty variant: progress is counted for accepted drafts only
RbjIncrCurrentSkipsFailed ==
    /\ pc = "rbj_incr"
    /\ job' = [job EXCEPT !.current = IF result.draft_ok THEN @ + 1 ELSE @]
    /\ pc' = "rbj_update"
    /\ UNCHANGED <<store, clock, desired_count, items, idx, successful_plans,
                   plan_ctx, result, exc, errs, published, last_hard>>
    /\ UNCHANGED <<articleVars, revise_request, wpConfig, pureVars, draftVars, wpVars>>

\* line 129
RbjIncrCurrent ==
    /\ pc = "rbj_incr"
    /\ job' = [job EXCEPT !.current = @ + 1]
    /\ pc' = "rbj_update"
    /\ UNCHANGED <<store, clock, desired_count, items, idx, successful_plans,
                   plan_ctx, result, exc, errs, published, last_hard>>
    /\ UNCHANGED <<articleVars, revise_request, wpConfig, pureVars, draftVars, wpVars>>

\* lines 130-131, then the next item; the locals of the finished item are dead
RbjUpdate ==
    /\ pc = "rbj_update"
    /\ \/ /\ Caught("job_store.update")
          /\ UNCHANGED <<successful_plans, idx, result, articleVars>>
       \/ /\ successful_plans' = Append(successful_plans, plan)
          /\ idx' = idx + 1
          /\ pc' = LoopHead(idx + 1, items)
          /\ result' = Null
          /\ plan' = Null
          /\ UNCHANGED <<draft, qc_report, attempt, targets, calls>>
          /\ UNCHANGED <<exc, errs>>
    /\ UNCHANGED <<job, store, clock, desired_count, items, plan_ctx, published,
                   last_hard>>
    /\ UNCHANGED <<revise_request, wpConfig, pureVars, draftVars, wpVars>>

\* lines 133-135
RbjFinish ==
    /\ pc = "rbj_finish"
    /\ job' = [job EXCEPT !.status = "done", !.finished_at = clock]
    /\ clock' = clock + 1
    /\ \/ Caught("job_store.update")
       \/ /\ pc' = "rbj_returned"
          /\ UNCHANGED <<exc, errs>>
    /\ UNCHANGED <<store, desired_count, items, idx, successful_plans, plan_ctx,
                   result, published, last_hard>>
    /\ UNCHANGED <<articleVars, revise_request, wpConfig, pureVars, draftVars, wpVars>>

\* faulty variant: the handler does not stamp the finish time
RbjExceptNoFinishTime ==
    /\ pc = "rbj_except"
    /\ job' = [_append_log(job, LogLine("job_failed", 0, 0, <<Msg(exc, NoInt, NoId)>>, None))
                 EXCEPT !.status = "failed"]
    /\ clock' = clock + 1
    /\ \/ errs' = Append(errs, "job_store.update")
       \/ errs' = errs
    /\ pc' = "rbj_returned"
    /\ UNCHANGED <<store, desired_count, items, idx, successful_plans, plan_ctx,
                   result, exc, published, last_hard>>
    /\ UNCHANGED <<articleVars, revise_request, wpConfig, pureVars, draftVars, wpVars>>

\* lines 136-142: an exception raised by the update inside the handler is
\* discarded by the return in the finally clause
RbjExcept ==
    /\ pc = "rbj_except"
    /\ job' = [_append_log(job, LogLine("job_failed", 0, 0, <<Msg(exc, NoInt, NoId)>>, None))
                 EXCEPT !.status = "failed", !.finished_at = clock]
    /\ clock' = clock + 1
    /\ \/ errs' = Append(errs, "job_store.update")
       \/ errs' = errs
    /\ pc' = "rbj_returned"
    /\ UNCHANGED <<store, desired_count, items, idx, successful_plans, plan_ctx,
                   result, exc, published, last_hard>>
    /\ UNCHANGED <<articleVars, revise_request, wpConfig, pureVars, draftVars, wpVars>>

(***************************************************************************)
(* usecases/create_drafts.py: create_article_draft                         *)
(***************************************************************************)
CallCreateArticleDraft ==
    /\ pc = "init"
    /\ pc' = "cad_plan"
    /\ UNCHANGED <<jobVars, errs, articleVars, revise_request, wpConfig, pureVars, draftVars, wpVars>>

\* an exception is not handled here: it reaches the caller
Escapes(label) ==
    /\ pc' = "cad_raised"
    /\ errs' = Append(errs, label)

\* faulty variant: the loop bound is off by one
AfterSoftReportOneMore(qc, a) ==
    IF a < max_soft_retries + 1 /\ qc.soft_failed THEN "cad_soft_qc" ELSE "cad_faq"

\* where create_article_draft goes after a report that is not hard-failed,
\* a loop iterations having been begun
AfterSoftReport(qc, a) ==
    IF a < max_soft_retries /\ qc.soft_failed THEN "cad_soft_qc" ELSE "cad_faq"

\* faulty variant: the closing reason is not appended
WithReasonDropped(rr, text) == rr

WithReason(rr, text) == [rr EXCEPT !.reasons = Append(@, Msg(text, NoInt, NoId))]

\* line 381
CadPlan ==
    /\ pc = "cad_plan"
    /\ \/ /\ Escapes("plan_article")
          /\ plan' = plan
       \/ /\ plan' \in PlanChoices(ItemTitle(0))
          /\ pc' = "cad_draft"
          /\ errs' = errs
    /\ UNCHANGED <<jobVars, draft, qc_report, attempt, targets, calls,
                   revise_request, wpConfig, pureVars, draftVars, wpVars>>

\* lines 382-385
CadDraft ==
    /\ pc = "cad_draft"
    /\ \/ /\ Escapes("draft_article")
          /\ UNCHANGED <<draft, qc_report, revise_request>>
       \/ \E sections \in SectionSets(plan) :
            \E r \in {draft_article(plan, sections)} :
               /\ draft' = r.draft
               /\ qc_report' = r.qc_report
               /\ errs' = errs
               /\ IF r.qc_report.hard_failed
                  THEN /\ revise_request' = <<revise(r.draft, r.qc_report)>>
                       /\ pc' = "cad_returned"
                  ELSE /\ revise_request' = <<>>
                       /\ pc' = AfterSoftReport(r.qc_report, 0)
    /\ attempt' = 0
    /\ UNCHANGED <<jobVars, plan, targets, calls, wpConfig, pureVars, draftVars, wpVars>>

\* lines 390-397
CadSoftQc ==
    /\ pc = "cad_soft_qc"
    /\ calls' = [calls EXCEPT !.soft_qc = @ + 1]
    /\ \E ans \in SoftQcAnswers :
         /\ raw' = ans
         /\ IF CallRaises(ans)
            THEN /\ Escapes("_soft_qc")
                 /\ targets' = targets
            ELSE /\ targets' = _soft_qc(ans).fix_targets
                 /\ pc' = IF targets' = <<>> THEN "cad_faq" ELSE "cad_revise"
                 /\ errs' = errs
    /\ UNCHANGED <<jobVars, plan, draft, qc_report, attempt, revise_request,
                   wpConfig, hash_seed, qc_again, draftVars, wpVars>>

\* lines 398-402
CadRevise ==
    /\ pc = "cad_revise"
    /\ calls' = [calls EXCEPT !.revise = @ + 1]
    /\ \E ans \in ReviseAnswers(plan, targets) :
         IF CallRaises(ans)
         THEN /\ Escapes("_apply_revise")
              /\ UNCHANGED <<draft, qc_report, attempt, revise_request>>
         ELSE \E r \in {_apply_revise(draft, plan, ans)} :
                 /\ draft' = r.draft
                 /\ qc_report' = r.qc_report
                 /\ attempt' = attempt + 1
                 /\ errs' = errs
                 /\ IF r.qc_report.hard_failed
                    THEN /\ revise_request' =
                              <<WithReason(revise(r.draft, r.qc_report), "soft_fix_hard_fail")>>
                         /\ pc' = "cad_returned"
                    ELSE /\ revise_request' = revise_request
                         /\ pc' = AfterSoftReport(r.qc_report, attempt + 1)
    /\ UNCHANGED <<jobVars, plan, targets, wpConfig, pureVars, draftVars, wpVars>>

\* faulty variant: a draft whose final report is only soft-failed is accepted
CadFaqAcceptsSoft ==
    /\ pc = "cad_faq"
    /\ calls' = [calls EXCEPT !.faq = @ + 1]
    /\ \E ans \in FaqAnswers :
         IF CallRaises(ans)
         THEN /\ Escapes("generate_faq")
              /\ UNCHANGED <<draft, qc_report, revise_request>>
         ELSE \E r \in {WithReport([draft EXCEPT !.faq = generate_faq(ans)])} :
                 /\ draft' = r.draft
                 /\ qc_report' = r.qc_report
                 /\ errs' = errs
                 /\ pc' = "cad_returned"
                 /\ revise_request' =
                      IF r.qc_report.hard_failed
                      THEN <<WithReason(revise(r.draft, r.qc_report), "final_hard")>>
                      ELSE <<>>
    /\ UNCHANGED <<jobVars, plan, attempt, targets, wpConfig, pureVars, draftVars, wpVars>>

\* lines 405-417
CadFaq ==
    /\ pc = "cad_faq"
    /\ calls' = [calls EXCEPT !.faq = @ + 1]
    /\ \E ans \in FaqAnswers :
         IF CallRaises(ans)
         THEN /\ Escapes("generate_faq")
              /\ UNCHANGED <<draft, qc_report, revise_request>>
         ELSE \E r \in {WithReport([draft EXCEPT !.faq = generate_faq(ans)])} :
                 /\ draft' = r.draft
                 /\ qc_report' = r.qc_report
                 /\ errs' = errs
                 /\ pc' = "cad_returned"
                 /\ revise_request' =
                      IF r.qc_report.hard_failed
                      THEN <<WithReason(revise(r.draft, r.qc_report), "final_hard")>>
                      ELSE IF r.qc_report.soft_failed
                      THEN <<WithReason(revise(r.draft, r.qc_report), "final_soft")>>
                      ELSE <<>>
    /\ UNCHANGED <<jobVars, plan, attempt, targets, wpConfig, pureVars, draftVars, wpVars>>

(***************************************************************************)
(* The specification.                                                      *)
(***************************************************************************)
Next ==
    \/ run_job
    \/ BackgroundTask
    \/ CallRunBatchJob
    \/ RbjStart
    \/ RbjBatchPlan
    \/ RbjPlan
    \/ RbjDraft
    \/ RbjSoftQc
    \/ RbjRevise
    \/ RbjFaq
    \/ RbjResult
    \/ WpBuildPayload
    \/ WpPost
    \/ WpSleep
    \/ RbjPublished
    \/ RbjAppendResult
    \/ RbjIncrCurrent
    \/ RbjUpdate
    \/ RbjFinish
    \/ RbjExcept
    \/ CallCreateArticleDraft
    \/ CadPlan
    \/ CadDraft
    \/ CadSoftQc
    \/ CadRevise
    \/ CadFaq

Spec == Init /\ [][Next]_vars

(***************************************************************************)
(* create_draft on its own, for every client configuration.                *)
(***************************************************************************)
InitPub ==
    /\ pc = "pub"
    /\ job = Null
    /\ store = "absent"
    /\ clock = 1
    /\ desired_count = 0
    /\ items = <<>>
    /\ idx = 0
    /\ successful_plans = <<>>
    /\ plan_ctx = Null
    /\ plan = Null
    /\ draft = Null
    /\ qc_report = Null
    /\ attempt = 0
    /\ targets = <<>>
    /\ result = Null
    /\ revise_request = <<>>
    /\ exc = None
    /\ errs = <<>>
    /\ calls = NoCalls
    /\ published = <<>>
    /\ last_hard = <<>>
    /\ max_retries \in 1..MaxRetriesBound
    /\ backoff_base \in BackoffBases
    /\ wpc = "idle"
    /\ wp_attempt = 0
    /\ last_error = NoMsg
    /\ last_status = NoInt
    /\ sleeps = <<>>
    /\ responses = <<>>
    /\ wp_result = Null
    /\ hash_seed = 0
    /\ raw = Null
    /\ qc_again = Null
    /\ da_sections = <<>>
    /\ contexts = <<>>

CallCreateDraft ==
    /\ pc = "pub"
    /\ wpc = "idle"
    /\ wpc' = "payload"
    /\ UNCHANGED <<pc, jobVars, errs, articleVars, revise_request, wpConfig, pureVars, draftVars>>
    /\ UNCHANGED <<wp_attempt, last_error, last_status, sleeps, responses, wp_result>>

NextPub ==
    \/ CallCreateDraft
    \/ WpBuildPayload
    \/ WpPost
    \/ WpSleep

SpecPub == InitPub /\ [][NextPub]_vars

(***************************************************************************)
(* The pure functions on their own: a plan is constructed from parsed      *)
(* data, a draft is assembled from sections, run_qc is applied twice,      *)
(* revise once, and generate_faq to one answer of the language model.      *)
(***************************************************************************)
HashSeeds == {0, 1}

OutlineItem(id, h3ids) ==
    [id |-> id, h3 |-> [j \in 1..Len(h3ids) |-> [id |-> h3ids[j]]]]

\* the validator of OutlineH3 and the validator of OutlineItem
OutlineH3Valid(h3) == IsPrefix(<<"h", "3", "-">>, h3.id)
OutlineItemValid(item) ==
    /\ IsPrefix(<<"h", "2", "-">>, item.id)
    /\ \A j \in 1..Len(item.h3) : OutlineH3Valid(item.h3[j])

\* ArticlePlan(**data) returns a plan: every nested model validates; ArticlePlan
\* has no validator of its own
ArticlePlanValid(data) ==
    \A i \in 1..Len(data.outline) : OutlineItemValid(data.outline[i])

\* outlines with a sub-heading in the last section, an id that is a prefix of
\* another, a sub-heading numbered after another section, repeated ids, and ids
\* with the wrong prefix
OutlineSubAtEnd ==
    <<OutlineItem(H2Id("1"), <<>>), OutlineItem(H2Id("2"), <<>>),
      OutlineItem(H2Id("3"), <<>>), OutlineItem(H2Id("4"), <<H3Id("4", "1")>>)>>
OutlinePrefixIds ==
    <<OutlineItem(H2Id("1"), <<>>), OutlineItem(H2Id("1") \o <<"0">>, <<>>),
      OutlineItem(H2Id("2"), <<>>), OutlineItem(H2Id("3"), <<>>)>>
OutlineForeignSub ==
    <<OutlineItem(H2Id("1"), <<H3Id("2", "1")>>), OutlineItem(H2Id("2"), <<>>),
      OutlineItem(H2Id("3"), <<>>), OutlineItem(H2Id("4"), <<>>)>>
OutlineRepeatedItem ==
    <<OutlineItem(H2Id("1"), <<>>), OutlineItem(H2Id("1"), <<>>),
      OutlineItem(H2Id("2"), <<>>), OutlineItem(H2Id("3"), <<>>)>>
OutlineRepeatedSub ==
    <<OutlineItem(H2Id("1"), <<H3Id("1", "1"), H3Id("1", "1")>>),
      OutlineItem(H2Id("2"), <<>>), OutlineItem(H2Id("3"), <<>>),
      OutlineItem(H2Id("4"), <<>>)>>
OutlineBadItemPrefix ==
    <<OutlineItem(<<"h", "3", "-", "1">>, <<>>), OutlineItem(H2Id("2"), <<>>),
      OutlineItem(H2Id("3"), <<>>), OutlineItem(H2Id("4"), <<>>)>>
OutlineBadSubPrefix ==
    <<OutlineItem(H2Id("1"), <<<<"h", "2", "-", "1", "-", "1">>>>),
      OutlineItem(H2Id("2"), <<>>), OutlineItem(H2Id("3"), <<>>),
      OutlineItem(H2Id("4"), <<>>)>>

\* nine sections: one more than the heading count rule admits
OutlineNine ==
    [i \in 1..(H2CountMax + 1) |->
       OutlineItem(H2Id(<<"1", "2", "3", "4", "5", "6", "7", "8", "0">>[i]), <<>>)]

\* meta descriptions at the edges of the rule, without and with surrounding
\* whitespace
MetaTexts ==
    {PaddedTxt(79, 0, FALSE), PaddedTxt(80, 0, FALSE), PaddedTxt(140, 0, FALSE),
     PaddedTxt(141, 0, FALSE), PaddedTxt(79, 1, FALSE), PaddedTxt(140, 1, FALSE)}

PlanData(meta, outline) ==
    [title |-> ItemTitle(0), slug |-> ItemTitle(0),
     meta_description |-> meta, outline |-> outline]

\* the data parse_plan_response hands to the ArticlePlan constructor
PlanCandidates ==
    {PlanData(m, TheOutline) : m \in MetaTexts}
    \cup {PlanData(Txt(100, FALSE), o) :
            o \in {OutlineSubAtEnd, OutlinePrefixIds, OutlineForeignSub,
                   OutlineRepeatedItem, OutlineRepeatedSub,
                   OutlineBadItemPrefix, OutlineBadSubPrefix, OutlineNine}}

SectionWith(item, body, h3body) ==
    [h2_id |-> item.id, body |-> body,
     h3_blocks |-> [j \in 1..Len(item.h3) |-> [id |-> item.h3[j].id, body |-> h3body]]]

BodyTexts == {Txt(299, FALSE), Txt(300, FALSE), PaddedTxt(300, 1, FALSE), Txt(300, TRUE)}
H3Texts == {Txt(n, FALSE) : n \in {0, 79, 80, 119, 120}}
MissingChoices == {{}, {1}, {2}, {4}, {1, 2}, {1, 2, 3, 4}}

\* a section whose id no outline declares
ForeignSection(body) == [h2_id |-> H2Id("9"), body |-> body, h3_blocks |-> <<>>]

Reverse(s) == [i \in 1..Len(s) |-> s[Len(s) + 1 - i]]

\* section lists for a plan: one section per outline item except the items
\* left out, with or without a section that is foreign to the plan, in plan
\* order or in reverse order
QcSectionSets(p) ==
    {LET kept == SelectSeq([i \in 1..Len(p.outline) |-> i], LAMBDA i : i \notin missing)
         secs == [k \in 1..Len(kept) |-> SectionWith(p.outline[kept[k]], body, h3body)]
                 \o (IF foreign THEN <<ForeignSection(body)>> ELSE <<>>)
     IN IF rev THEN Reverse(secs) ELSE secs :
       missing \in MissingChoices, body \in BodyTexts, h3body \in H3Texts,
       rev \in BOOLEAN, foreign \in BOOLEAN}

InitQc ==
    /\ pc = "qc_parse"
    /\ job = Null
    /\ store = "absent"
    /\ clock = 1
    /\ desired_count = 0
    /\ items = <<>>
    /\ idx = 0
    /\ successful_plans = <<>>
    /\ plan_ctx = Null
    /\ plan = Null
    /\ draft = Null
    /\ qc_report = Null
    /\ attempt = 0
    /\ targets = <<>>
    /\ result = Null
    /\ revise_request = <<>>
    /\ exc = None
    /\ errs = <<>>
    /\ calls = NoCalls
    /\ published = <<>>
    /\ last_hard = <<>>
    /\ max_retries = DefaultMaxRetries
    /\ backoff_base = DefaultBackoffBase
    /\ wpc = "idle"
    /\ wp_attempt = 0
    /\ last_error = NoMsg
    /\ last_status = NoInt
    /\ sleeps = <<>>
    /\ responses = <<>>
    /\ wp_result = Null
    /\ hash_seed \in HashSeeds
    /\ raw = Null
    /\ qc_again = Null
    /\ da_sections = <<>>
    /\ contexts = <<>>

\* site_adapter.parse_plan_response: the typed plan is constructed or the
\* constructor raises
ConstructArticlePlan ==
    /\ pc = "qc_parse"
    /\ \E data \in PlanCandidates :
         /\ raw' = data
         /\ IF ArticlePlanValid(data)
            THEN plan' = data /\ pc' = "qc_assemble"
            ELSE plan' = plan /\ pc' = "plan_rejected"
    /\ UNCHANGED <<jobVars, errs, draft, qc_report, attempt, targets, calls,
                   revise_request, wpConfig, wpVars, hash_seed, qc_again, draftVars>>

\* draft_article without the language model: assemble and build the draft
AssembleDraft ==
    /\ pc = "qc_assemble"
    /\ \E sections \in QcSectionSets(plan) :
         draft' = Draft(plan, assemble_markdown(plan, sections), sections, <<>>, <<>>)
    /\ pc' = "qc_run"
    /\ UNCHANGED <<jobVars, errs, plan, qc_report, attempt, targets, calls,
                   revise_request, wpConfig, wpVars, pureVars, draftVars>>

\* faulty variant: the call drops from the draft's outline the items that the
\* markdown does not embed
RunQcPrunesOutline ==
    /\ pc = "qc_run"
    /\ qc_report' = run_qc(draft)
    /\ draft' = [draft EXCEPT !.outline =
                    SelectSeq(@, LAMBDA item : MarkdownHasId(draft.markdown, item.id))]
    /\ pc' = "qc_rerun"
    /\ UNCHANGED <<jobVars, errs, plan, attempt, targets, calls,
                   revise_request, wpConfig, wpVars, pureVars, draftVars>>

\* run_qc reads the draft and assigns to none of its fields
RunQc ==
    /\ pc = "qc_run"
    /\ qc_report' = run_qc(draft)
    /\ pc' = "qc_rerun"
    /\ UNCHANGED <<jobVars, errs, plan, draft, attempt, targets, calls,
                   revise_request, wpConfig, wpVars, pureVars, draftVars>>

RunQcAgain ==
    /\ pc = "qc_rerun"
    /\ qc_again' = run_qc(draft)
    /\ pc' = "qc_revise"
    /\ UNCHANGED <<jobVars, errs, plan, draft, qc_report, attempt, targets, calls,
                   revise_request, wpConfig, wpVars, hash_seed, raw, draftVars>>

ApplyRevise ==
    /\ pc = "qc_revise"
    /\ revise_request' = <<revise(draft, qc_report)>>
    /\ pc' = "qc_faq"
    /\ UNCHANGED <<jobVars, errs, plan, draft, qc_report, attempt, targets, calls,
                   wpConfig, wpVars, pureVars, draftVars>>

\* generate_faq on a text the language model returned
ApplyGenerateFaq ==
    /\ pc = "qc_faq"
    /\ \E ans \in FaqAnswers \ {Raises} :
         /\ raw' = ans
         /\ IF CallRaises(ans)
            THEN /\ pc' = "faq_raised"
                 /\ errs' = Append(errs, "generate_faq")
                 /\ draft' = draft
            ELSE /\ pc' = "qc_done"
                 /\ errs' = errs
                 /\ draft' = [draft EXCEPT !.faq = generate_faq(ans)]
    /\ UNCHANGED <<jobVars, plan, qc_report, attempt, targets, calls,
                   revise_request, wpConfig, wpVars, hash_seed, qc_again, draftVars>>

NextQc ==
    \/ ConstructArticlePlan
    \/ AssembleDraft
    \/ RunQc
    \/ RunQcAgain
    \/ ApplyRevise
    \/ ApplyGenerateFaq

SpecQc == InitQc /\ [][NextQc]_vars

(***************************************************************************)
(* draft_article call by call, followed by up to two _apply_revise calls   *)
(* that merge regenerated sections into the draft.                         *)
(***************************************************************************)
InitDraft ==
    /\ pc = "da_call"
    /\ job = Null
    /\ store = "absent"
    /\ clock = 1
    /\ desired_count = 0
    /\ items = <<>>
    /\ idx = 0
    /\ successful_plans = <<>>
    /\ plan_ctx = Null
    /\ plan \in PlanChoices(ItemTitle(0))
    /\ draft = Null
    /\ qc_report = Null
    /\ attempt = 0
    /\ targets = <<>>
    /\ result = Null
    /\ revise_request = <<>>
    /\ exc = None
    /\ errs = <<>>
    /\ calls = NoCalls
    /\ published = <<>>
    /\ last_hard = <<>>
    /\ max_retries = DefaultMaxRetries
    /\ backoff_base = DefaultBackoffBase
    /\ wpc = "idle"
    /\ wp_attempt = 0
    /\ last_error = NoMsg
    /\ last_status = NoInt
    /\ sleeps = <<>>
    /\ responses = <<>>
    /\ wp_result = Null
    /\ hash_seed = 0
    /\ raw = Null
    /\ qc_again = Null
    /\ da_sections = <<>>
    /\ contexts = <<>>

\* faulty variant: only the section generated last is handed on
previous_sections_last_only(secs) ==
    IF secs = <<>> THEN <<>> ELSE <<secs[Len(secs)]>>

\* the previous_sections argument of draft_section: the list itself
previous_sections(secs) == secs

\* line 260
CallDraftArticle ==
    /\ pc = "da_call"
    /\ da_sections' = <<>>
    /\ contexts' = <<>>
    /\ pc' = "da_loop"
    /\ UNCHANGED <<jobVars, errs, articleVars, revise_request, wpConfig, wpVars, pureVars>>

\* lines 261-263: one iteration; the loop is at the item after the sections
\* appended so far
DraftSection ==
    /\ pc = "da_loop"
    /\ Len(da_sections) < Len(plan.outline)
    /\ LET item == plan.outline[Len(da_sections) + 1]
       IN /\ contexts' = Append(contexts, [item |-> item.id,
                                           previous_sections |-> previous_sections(da_sections)])
          /\ \/ /\ pc' = "da_raised"
                /\ errs' = Append(errs, "draft_section")
                /\ da_sections' = da_sections
             \/ \E b \in BodyLens :
                  /\ da_sections' = Append(da_sections, SectionFor(item, b, H3SoftLength))
                  /\ pc' = "da_loop"
                  /\ errs' = errs
    /\ UNCHANGED <<jobVars, articleVars, revise_request, wpConfig, wpVars, pureVars>>

\* lines 265-281
DraftAssemble ==
    /\ pc = "da_loop"
    /\ Len(da_sections) = Len(plan.outline)
    /\ \E r \in {draft_article(plan, da_sections)} :
         /\ draft' = r.draft
         /\ qc_report' = r.qc_report
    /\ pc' = "da_returned"
    /\ UNCHANGED <<jobVars, errs, plan, attempt, targets, calls, revise_request,
                   wpConfig, wpVars, pureVars, draftVars>>

\* sections the language model regenerates: for a section of the draft, for
\* another one, and for an id the draft does not have
Regenerated ==
    {[h2_id |-> H2Id(d), body |-> Txt(n, FALSE), h3_blocks |-> <<>>] :
        d \in {"1", "3", "9"}, n \in {MinH2Length + 1, MinH2Length + 2}}

\* the parsed sections of one answer to the revise prompt
RegeneratedLists ==
    {<<>>} \cup {<<a>> : a \in Regenerated} \cup {<<a, b>> : a, b \in Regenerated}

\* lines 326-361: _apply_revise on a well-formed answer
ApplyReviseCall ==
    /\ pc \in {"da_returned", "da_merged"}
    /\ attempt < max_soft_retries
    /\ \E new_sections \in RegeneratedLists :
         \E ans \in {Answer("object", <<>>, new_sections, <<>>, FALSE)} :
            \E r \in {_apply_revise(draft, plan, ans)} :
               /\ raw' = ans
               /\ draft' = r.draft
               /\ qc_report' = r.qc_report
    /\ attempt' = attempt + 1
    /\ pc' = "da_merged"
    /\ UNCHANGED <<jobVars, errs, plan, targets, calls, revise_request,
                   wpConfig, wpVars, hash_seed, qc_again, draftVars>>

NextDraft ==
    \/ CallDraftArticle
    \/ DraftSection
    \/ DraftAssemble
    \/ ApplyReviseCall

SpecDraft == InitDraft /\ [][NextDraft]_vars

(***************************************************************************)
(* run_batch_job called for a job id that may already be in the store:     *)
(* absent, created as queued, or left by an earlier run of the same id.    *)
(***************************************************************************)
\* the job an earlier run of one item left in the store: published, done
FinishedJob ==
    [status |-> "done", total |-> 1, current |-> 1,
     logs |-> <<LogLine("wp_created", 1, 1, <<>>, "link")>>,
     results |-> <<[JobResultItem(0, ItemTitle(0)) EXCEPT
                      !.draft_ok = TRUE, !.wp_ok = TRUE, !.wp_post_id = 101,
                      !.wp_url = "link"]>>,
     started_at |-> 1, finished_at |-> 2]

InitRestart ==
    /\ pc = "rbj_start"
    /\ \E stored \in {<<>>, <<JobState("queued", MaxItems)>>, <<FinishedJob>>} :
         IF stored = <<>> THEN job = Null /\ store = "absent"
         ELSE job = stored[1] /\ store = "ref"
    /\ clock = 3
    /\ desired_count = MaxItems
    /\ items = <<>>
    /\ idx = 0
    /\ successful_plans = <<>>
    /\ plan_ctx = Null
    /\ plan = Null
    /\ draft = Null
    /\ qc_report = Null
    /\ attempt = 0
    /\ targets = <<>>
    /\ result = Null
    /\ revise_request = <<>>
    /\ exc = None
    /\ errs = <<>>
    /\ calls = NoCalls
    /\ published = <<>>
    /\ last_hard = <<>>
    /\ max_retries = DefaultMaxRetries
    /\ backoff_base = DefaultBackoffBase
    /\ wpc = "idle"
    /\ wp_attempt = 0
    /\ last_error = NoMsg
    /\ last_status = NoInt
    /\ sleeps = <<>>
    /\ responses = <<>>
    /\ wp_result = Null
    /\ hash_seed = 0
    /\ raw = Null
    /\ qc_again = Null
    /\ da_sections = <<>>
    /\ contexts = <<>>

NextRestart ==
    \/ RbjStart
    \/ RbjBatchPlan
    \/ RbjPlan
    \/ RbjDraft
    \/ RbjSoftQc
    \/ RbjRevise
    \/ RbjFaq
    \/ RbjResult
    \/ WpBuildPayload
    \/ WpPost
    \/ WpSleep
    \/ RbjPublished
    \/ RbjAppendResult
    \/ RbjIncrCurrent
    \/ RbjUpdate
    \/ RbjFinish
    \/ RbjExcept

SpecRestart == InitRestart /\ [][NextRestart]_vars

(***************************************************************************)
(* Properties.                                                             *)
(***************************************************************************)
\* errors raised while one item is planned, drafted, revised, enriched or published
ItemErrors == {"plan_article", "draft_article", "_soft_qc", "_apply_revise",
               "generate_faq", "create_draft"}
ItemRaises == (ItemErrors \ {"create_draft"}) \cup {"_build_payload", "response.json"}

Occurrences(s, x) == Cardinality({k \in 1..Len(s) : s[k] = x})

\* C1: when run_batch_job returns and no collaborator raised, the job is done,
\* current and the number of results equal the number of planned items, the
\* results are in item order, every item whose last report was hard-failed has
\* draft_ok false and was never handed to create_draft, and every other item has
\* draft_ok true and was handed to create_draft exactly once.
C1_BatchCompletes ==
    (pc = "rbj_returned" /\ errs = <<>>) =>
        /\ job.status = "done"
        /\ job.current = Len(items)
        /\ Len(job.results) = Len(items)
        /\ Len(last_hard) = Len(items)
        /\ \A i \in 1..Len(items) :
             /\ job.results[i].index = i - 1
             /\ job.results[i].draft_ok = ~last_hard[i]
             /\ Occurrences(published, i - 1) = IF last_hard[i] THEN 0 ELSE 1

C1_Witness ==
    /\ pc = "rbj_returned"
    /\ errs = <<>>
    /\ Len(items) = 2
    /\ last_hard = <<TRUE, FALSE>>
    /\ job.current = 2
    /\ published = <<1>>

Terminated == pc \in {"rbj_returned", "rbj_raised", "task_raised"}

\* C2: a job that is in the store when the batch runner has ended (returned or
\* raised) has a terminal status and a finish time.
C2_JobEndsTerminal ==
    (Terminated /\ store = "ref") =>
        (job.status \in {"done", "failed"} /\ job.finished_at # NoInt)

\* C3 as stated: when the only errors raised are errors of single items, the run
\* still counts every planned item.
C3_ItemErrorIsolated ==
    (pc = "rbj_returned" /\ errs # <<>> /\ Range(errs) \subseteq ItemRaises) =>
        job.current = Len(items)

\* C3 as amended: a hard-failed report or a failed publish result never aborts
\* the batch (every earlier item is counted at each loop head, and a run in
\* which nothing raised counts all items and ends done), while an error raised
\* for an item ends the job as failed without counting that item.
C3_FailureResultIsolated ==
    /\ (pc \in {"rbj_plan", "rbj_finish"}) =>
           /\ job.current = idx
           /\ Len(job.results) = idx
           /\ pc = "rbj_finish" => idx = Len(items)
    /\ (pc = "rbj_returned" /\ errs = <<>>) =>
           (job.status = "done" /\ job.current = Len(items))
    /\ (pc = "rbj_returned" /\ exc \in ItemErrors) =>
           (job.status = "failed" /\ job.current = idx /\ idx < Len(items))

C3_Witness ==
    /\ pc = "rbj_returned"
    /\ exc \in ItemErrors
    /\ job.current = 1
    /\ ~job.results[1].draft_ok

\* C4: an exception caught at the batch boundary leaves results, log lines and
\* publish calls as they were, the handler appends the 'Job failed' line, sets
\* status failed and a finish time and returns, and nothing runs after the
\* return.
C4_FatalException ==
    [][/\ (pc # "rbj_except" /\ pc' = "rbj_except") =>
             (job'.results = job.results /\ job'.logs = job.logs
              /\ published' = published)
       /\ (pc = "rbj_except") =>
             /\ pc' = "rbj_returned"
             /\ job'.status = "failed"
             /\ job'.finished_at # NoInt
             /\ job'.results = job.results
             /\ Len(job'.logs) = Len(job.logs) + 1
             /\ SubSeq(job'.logs, 1, Len(job.logs)) = job.logs
             /\ job'.logs[Len(job'.logs)].kind = "job_failed"
             /\ published' = published
             /\ idx' = idx
       /\ (pc = "rbj_returned") => FALSE]_vars

C4_Witness ==
    /\ pc = "rbj_returned"
    /\ exc # None
    /\ job.status = "failed"
    /\ job.finished_at # NoInt
    /\ Len(job.results) >= 1
    /\ idx < Len(items)

\* C5: for one article at most 2 soft-QC calls and at most 2 regeneration calls
\* are made, in create_article_draft and in run_batch_job alike.
C5_SoftLoopBound == calls.soft_qc <= 2 /\ calls.revise <= 2

C5_Witness ==
    /\ calls.revise = 2
    /\ calls.soft_qc = 2
    /\ qc_report.soft_failed
    /\ pc \in {"cad_faq", "rbj_faq"}

\* C10: when the report of the initial draft is hard-failed, create_article_draft
\* returns in that step with a ReviseRequest whose hard_fail is true, having made
\* no soft-QC, regeneration or FAQ call, with an empty FAQ; nothing runs after
\* the return.
C10_HardFailExit ==
    [][/\ (pc = "cad_draft" /\ pc' # "cad_raised" /\ qc_report'.hard_failed) =>
             /\ pc' = "cad_returned"
             /\ Len(revise_request') = 1
             /\ revise_request'[1].hard_fail
             /\ calls' = NoCalls
             /\ draft'.faq = <<>>
       /\ (pc = "cad_returned") => FALSE]_vars

C10_Witness ==
    /\ pc = "cad_returned"
    /\ calls = NoCalls
    /\ qc_report.hard_failed
    /\ Len(revise_request) = 1
    /\ revise_request[1].hard_fail
    /\ draft.faq = <<>>

Non2xx(response) == response.kind = "http" /\ ~Is2xx(response.status)
AllNon2xx == \A k \in 1..Len(responses) : Non2xx(responses[k])
Got2xx(k) == responses[k].kind = "http" /\ Is2xx(responses[k].status)

\* C6: when every POST was answered with a non-2xx status, create_draft returns
\* after exactly max_retries POSTs and max_retries - 1 sleeps, the k-th sleep
\* lasting backoff_base * 2^(k-1) (500 ms then 1000 ms for the defaults), with
\* success false and the status code of the last response; it never sleeps
\* after the last attempt.
C6_RetryBudget ==
    /\ (wpc = "sleep") => Len(responses) < max_retries
    /\ (wpc = "returned" /\ responses # <<>> /\ AllNon2xx) =>
           /\ Len(responses) = max_retries
           /\ Len(sleeps) = max_retries - 1
           /\ \A k \in 1..Len(sleeps) : sleeps[k] = backoff_base * 2^(k - 1)
           /\ (max_retries = 3 /\ backoff_base = 500) => sleeps = <<500, 1000>>
           /\ ~wp_result.success
           /\ wp_result.status_code = responses[max_retries].status

C6_Witness ==
    /\ wpc = "returned"
    /\ max_retries = 4
    /\ backoff_base = 500
    /\ AllNon2xx
    /\ Len(responses) = 4
    /\ sleeps = <<500, 1000, 2000>>
    /\ ~wp_result.success
    /\ wp_result.status_code = 503

\* C7: create_draft does not raise once a POST has been made, whatever the
\* target answered.
C7_NeverRaises == (wpc = "raised") => responses = <<>>

\* C8: once a 2xx response has been received create_draft has returned success,
\* that response is the only 2xx response and the last POST, one sleep precedes
\* each earlier POST and none follows; a success result implies a 2xx response.
C8_FirstSuccessReturns ==
    /\ (\E k \in 1..Len(responses) : Got2xx(k)) =>
           /\ wpc = "returned"
           /\ wp_result.success
           /\ Got2xx(Len(responses))
           /\ \A k \in 1..(Len(responses) - 1) : ~Got2xx(k)
           /\ wp_attempt = Len(responses)
           /\ Len(responses) <= max_retries
           /\ Len(sleeps) = Len(responses) - 1
    /\ (wpc = "returned" /\ wp_result.success) =>
           (\E k \in 1..Len(responses) : Got2xx(k))

ErrorOf(response) ==
    IF response.kind = "http" THEN Msg("HTTP", response.status, NoId)
    ELSE Msg("transport", NoInt, NoId)

Exhausted == wpc = "returned" /\ responses # <<>> /\ ~wp_result.success

\* C9 as stated: the failure result carries the error message and the status
\* code of the last attempt (no status code when that attempt failed at
\* transport level).
C9_LastAttemptReported ==
    Exhausted =>
        /\ wp_result.error_message = ErrorOf(responses[Len(responses)])
        /\ wp_result.status_code = responses[Len(responses)].status

HttpAttempts == {k \in 1..Len(responses) : responses[k].kind = "http"}
LastHttpAttempt == CHOOSE k \in HttpAttempts : \A j \in HttpAttempts : j <= k

\* C9 as amended: the failure result carries the error message of the last
\* attempt and the status code of the last attempt that got an HTTP response
\* (none when every attempt failed at transport level).
C9_LastObservedReported ==
    Exhausted =>
        /\ Len(responses) = max_retries
        /\ wp_result.error_message = ErrorOf(responses[Len(responses)])
        /\ wp_result.status_code =
              IF HttpAttempts = {} THEN NoInt ELSE responses[LastHttpAttempt].status

C9_Witness ==
    /\ Exhausted
    /\ Len(responses) >= 2
    /\ responses[1].kind = "http"
    /\ responses[Len(responses)].kind = "transport"
    /\ wp_result.status_code = responses[1].status
    /\ wp_result.error_message = Msg("transport", NoInt, NoId)

FinalQcRan == pc = "cad_returned" /\ calls.faq = 1
LastReason(rr) == rr.reasons[Len(rr.reasons)].text

\* C11: create_article_draft returns no ReviseRequest exactly when it reached
\* the final QC run after the FAQ step and that report is neither hard-failed
\* nor soft-failed; when the final report is hard-failed or soft-failed the
\* ReviseRequest returned ends with a reason that names the hard case or the
\* soft case.
C11_FinalQcOutcome ==
    (pc = "cad_returned") =>
        /\ (revise_request = <<>>) <=>
              (FinalQcRan /\ ~qc_report.hard_failed /\ ~qc_report.soft_failed)
        /\ (FinalQcRan /\ qc_report.hard_failed) =>
              (revise_request # <<>> /\ LastReason(revise_request[1]) = "final_hard")
        /\ (FinalQcRan /\ ~qc_report.hard_failed /\ qc_report.soft_failed) =>
              (revise_request # <<>> /\ LastReason(revise_request[1]) = "final_soft")
        /\ (FinalQcRan) => draft.quality_self_check = <<qc_report.measurements>>

C11_Witness ==
    /\ FinalQcRan
    /\ ~qc_report.hard_failed
    /\ qc_report.soft_failed
    /\ revise_request # <<>>
    /\ LastReason(revise_request[1]) = "final_soft"
    /\ ~revise_request[1].hard_fail

QcRan == pc \in {"qc_rerun", "qc_revise", "qc_faq", "qc_done", "faq_raised"}
IssuesWith(report, metric, target) ==
    {i \in 1..Len(report.issues) :
        report.issues[i].metric = metric /\ report.issues[i].target_id = target}

\* C12: run_qc emits a hard meta_description_length issue exactly when the
\* number of code points of the meta description, surrounding whitespace
\* included, lies outside 80..140.
C12_MetaLengthRule ==
    QcRan =>
        LET n == _unicode_len(draft.meta_description)
            found == IssuesWith(qc_report, "meta_description_length", NoId)
        IN /\ (found # {}) <=> ~(80 <= n /\ n <= 140)
           /\ \A i \in found : qc_report.issues[i].severity = "hard"

\* the sections assemble_markdown renders, in plan order, and their sub-sections
RECURSIVE PresentSections(_, _)
PresentSections(outline, sections) ==
    IF outline = <<>> THEN <<>>
    ELSE SectionMapGet(sections, Head(outline).id) \o PresentSections(Tail(outline), sections)

PresentBlocks(d) ==
    LET present == PresentSections(d.outline, d.sections)
    IN Flatten([i \in 1..Len(present) |-> present[i].h3_blocks])

\* C13: for every sub-heading rendered into the markdown, with a body of n code
\* points, run_qc emits one h3_length issue targeting it when n < 120 (hard when
\* n < 80, soft otherwise) and none when n >= 120.
C13_SubHeadingRule ==
    QcRan =>
        LET blocks == PresentBlocks(draft)
        IN \A k \in 1..Len(blocks) :
             LET n == _unicode_len(strip(blocks[k].body))
                 same == {j \in 1..Len(blocks) : blocks[j].id = blocks[k].id}
                 found == IssuesWith(qc_report, "h3_length", blocks[k].id)
             IN /\ Cardinality(found) = IF n < 120 THEN Cardinality(same) ELSE 0
                /\ \A i \in found :
                     qc_report.issues[i].severity = IF n < 80 THEN "hard" ELSE "soft"

\* a heading line of the markdown carries exactly this id
Embedded(markdown, oid) ==
    \E i \in 1..Len(markdown) : markdown[i].k \in {"h2", "h3"} /\ markdown[i].id = oid

DeclaredH3Ids(d) == {AllH3(d.outline)[j].id : j \in 1..Len(AllH3(d.outline))}

\* C14: for every identifier declared in the outline, run_qc emits exactly one
\* hard issue targeting it (metric outline_id for a section, outline_h3_id for a
\* sub-heading) when no heading of the markdown embeds it, and none when one does.
C14_MissingIdRule ==
    QcRan =>
        /\ \A i \in 1..Len(draft.outline) :
             LET oid == draft.outline[i].id
                 found == IssuesWith(qc_report, "outline_id", oid)
             IN /\ Cardinality(found) = IF Embedded(draft.markdown, oid) THEN 0 ELSE 1
                /\ \A k \in found : qc_report.issues[k].severity = "hard"
        /\ \A hid \in DeclaredH3Ids(draft) :
             LET found == IssuesWith(qc_report, "outline_h3_id", hid)
             IN /\ Cardinality(found) = IF Embedded(draft.markdown, hid) THEN 0 ELSE 1
                /\ \A k \in found : qc_report.issues[k].severity = "hard"

SameDraftContent(d, e) ==
    /\ d.markdown = e.markdown
    /\ d.outline = e.outline
    /\ d.sections = e.sections
    /\ d.faq = e.faq

Revised == pc \in {"qc_faq", "qc_done", "faq_raised"}

\* the id of the outline item that declares the sub-heading
Owner(outline, hid) ==
    LET owners == {i \in 1..Len(outline) :
                      \E j \in 1..Len(outline[i].h3) : outline[i].h3[j].id = hid}
    IN outline[CHOOSE i \in owners : \A k \in owners : i <= k].id

ExpectedTargets(outline, issue) ==
    IF issue.target_id = NoId THEN <<>>
    ELSE IF issue.metric \in {"min_h2_length", "outline_id"} THEN <<issue.target_id>>
    ELSE IF issue.metric \in {"h3_length", "outline_h3_id"}
         THEN <<Owner(outline, issue.target_id)>>
    ELSE <<>>

\* C16: revise() puts no sub-heading id into sections_to_regenerate; each issue
\* about a sub-heading contributes the id of the outline item that owns that
\* sub-heading, each issue about a section contributes its own target.
C16_ParentEscalation ==
    Revised =>
        LET rr == revise_request[1]
        IN /\ \A k \in 1..Len(rr.sections_to_regenerate) :
                ~IsPrefix(<<"h", "3", "-">>, rr.sections_to_regenerate[k])
           /\ rr.sections_to_regenerate =
                Flatten([i \in 1..Len(qc_report.issues) |->
                           ExpectedTargets(draft.outline, qc_report.issues[i])])

\* one section per outline item
OnePerItem(d) ==
    /\ Len(d.sections) = Len(d.outline)
    /\ \A i \in 1..Len(d.outline) :
         \E k \in 1..Len(d.sections) : d.sections[k].h2_id = d.outline[i].id

JobStoreGet == IF store = "ref" THEN <<job>> ELSE <<>>

\* C18: whatever a reader gets from the job store while the batch runs is a
\* state between two per-item updates: as many results as current counts.
C18_ReaderSnapshot ==
    \A k \in 1..Len(JobStoreGet) :
        JobStoreGet[k].status = "running" =>
            Len(JobStoreGet[k].results) = JobStoreGet[k].current

FaqApplied == pc \in {"qc_done", "faq_raised"}
WellFormedFaq(ans) == ans.json = "object" /\ ans.faq_is_list

\* C19: generate_faq returns for every text of the language model, and returns
\* the empty list for invalid JSON, for JSON that is no object and for an object
\* whose faq value is no list.
C19_FaqNeverRaises ==
    FaqApplied =>
        /\ pc = "qc_done"
        /\ ~WellFormedFaq(raw) => draft.faq = <<>>

Distinct(s) == \A i, j \in 1..Len(s) : s[i] = s[j] => i = j

\* the identifier invariant of a plan's outline
IdInvariant(outline) ==
    /\ \A i \in 1..Len(outline) :
         /\ IsPrefix(<<"h", "2", "-">>, outline[i].id)
         /\ \A j \in 1..Len(outline[i].h3) : IsPrefix(<<"h", "3", "-">>, outline[i].h3[j].id)
         /\ Distinct([j \in 1..Len(outline[i].h3) |-> outline[i].h3[j].id])
    /\ Distinct([i \in 1..Len(outline) |-> outline[i].id])

\* C20: constructing an ArticlePlan from data whose outline breaks the
\* identifier invariant fails and produces no plan.
C20_PlanConstructionFails ==
    (pc \in {"qc_assemble", "plan_rejected"} /\ ~IdInvariant(raw.outline)) =>
        (pc = "plan_rejected" /\ plan = Null)

\* C21: in run_batch_job a report that is hard-failed (after the initial draft,
\* after a regeneration or after the FAQ step) is followed at once by the result
\* step, with no further soft-QC, regeneration or FAQ call; the result step hands
\* the item to the publisher with draft_ok true exactly when its report is not
\* hard-failed (soft-failed or not), and otherwise records the issue messages as
\* the error without a publish call; the publisher is called from no other step.
C21_PublishIffNotHard ==
    [][/\ (pc \in {"rbj_draft", "rbj_revise", "rbj_faq"} /\ pc' # "rbj_except"
           /\ qc_report'.hard_failed) =>
             (pc' = "rbj_result" /\ (pc = "rbj_draft" => calls' = NoCalls))
       /\ (pc = "rbj_result" /\ qc_report.hard_failed) =>
             /\ pc' = "rbj_append"
             /\ ~result'.draft_ok
             /\ result'.error = [i \in 1..Len(qc_report.issues) |->
                                    qc_report.issues[i].message]
             /\ published' = published
             /\ wpc' = "idle"
       /\ (pc = "rbj_result" /\ ~qc_report.hard_failed) =>
             /\ pc' = "rbj_publishing"
             /\ result'.draft_ok
             /\ published' = Append(published, idx)
             /\ wpc' = "payload"
       /\ (published' # published \/ (wpc = "idle" /\ wpc' # "idle")) =>
             pc = "rbj_result"]_vars

\* the first item was hard-failed and recorded unpublished with its messages;
\* the second is still soft-failed after two regenerations and the FAQ step
C21_Witness ==
    /\ pc = "rbj_result"
    /\ idx = 1
    /\ ~job.results[1].draft_ok
    /\ job.results[1].error # <<>>
    /\ published = <<>>
    /\ calls = [soft_qc |-> 2, revise |-> 2, faq |-> 1]
    /\ qc_report.soft_failed
    /\ ~qc_report.hard_failed

Assembled == pc \in {"qc_run", "qc_rerun", "qc_revise", "qc_faq", "qc_done", "faq_raised"}

\* the ids of the level-1 heading lines of a markdown, in document order
HeadingIds(markdown) ==
    LET heads == SelectSeq(markdown, LAMBDA l : l.k = "h2")
    IN [i \in 1..Len(heads) |-> heads[i].id]

\* newline characters at the end of the document text: the one that ends the
\* last line and one for every empty line before it
RECURSIVE TrailingNewlines(_)
TrailingNewlines(markdown) ==
    IF markdown = <<>> THEN 1
    ELSE IF NonBlank(markdown[Len(markdown)]) THEN 1
    ELSE 1 + TrailingNewlines(SubSeq(markdown, 1, Len(markdown) - 1))

\* C22: the level-1 headings of the assembled markdown are the outline ids that
\* some section of the list carries, in outline order, whatever the order of
\* the list; each heading is followed by the trimmed body of its section; items
\* without a section and sections foreign to the plan leave no line; the
\* document ends with exactly one newline, also when nothing is rendered.
C22_AssembleInPlanOrder ==
    Assembled =>
        LET ids == [i \in 1..Len(draft.outline) |-> draft.outline[i].id]
            carried == SelectSeq(ids, LAMBDA id :
                          \E k \in 1..Len(draft.sections) : draft.sections[k].h2_id = id)
            md == draft.markdown
        IN /\ HeadingIds(md) = carried
           /\ \A i \in 1..Len(md) :
                md[i].k = "h2" =>
                   /\ i < Len(md)
                   /\ \E k \in 1..Len(draft.sections) :
                        /\ draft.sections[k].h2_id = md[i].id
                        /\ md[i + 1] = TxtLine(strip(draft.sections[k].body))
           /\ carried = <<>> => md = <<>>
           /\ TrailingNewlines(md) = 1

C22_Witness ==
    /\ Assembled
    /\ Len(draft.sections) = 4
    /\ draft.sections[1].h2_id = H2Id("9")
    /\ draft.sections[2].h2_id = H2Id("4")
    /\ draft.sections[4].h2_id = H2Id("2")
    /\ draft.outline[1].id = H2Id("1")
    /\ HeadingIds(draft.markdown) = <<H2Id("2"), H2Id("3"), H2Id("4")>>
    /\ draft.sections[2].h3_blocks # <<>>
    /\ draft.sections[2].h3_blocks[1].body.len = 0

\* C23: the k-th draft_section call is made for the k-th outline item and
\* receives exactly the sections returned by calls 1..k-1, in that order; the
\* context of each call extends the context of the call before it by one section.
C23_SequentialContext ==
    (pc \in {"da_loop", "da_raised", "da_returned", "da_merged"}) =>
        /\ Len(contexts) \in {Len(da_sections), Len(da_sections) + 1}
        /\ Len(contexts) = Len(da_sections) + 1 => pc = "da_raised"
        /\ \A k \in 1..Len(contexts) :
             /\ contexts[k].item = plan.outline[k].id
             /\ Len(contexts[k].previous_sections) = k - 1
             /\ \A j \in 1..(k - 1) :
                  /\ contexts[k].previous_sections[j] = da_sections[j]
                  /\ contexts[k].previous_sections[j].h2_id = plan.outline[j].id
             /\ k > 1 =>
                  contexts[k - 1].previous_sections =
                      SubSeq(contexts[k].previous_sections, 1, k - 2)
        /\ (pc = "da_returned") =>
             (Len(contexts) = Len(plan.outline) /\ draft.sections = da_sections)

C23_Witness ==
    /\ pc = "da_returned"
    /\ Len(contexts) = 4
    /\ contexts[4].item = H2Id("4")
    /\ Len(contexts[4].previous_sections) = 3
    /\ contexts[4].previous_sections[1].body.len = 299
    /\ contexts[4].previous_sections[3].body.len = 300
    /\ contexts[4].previous_sections[3].h2_id = H2Id("3")

\* C24: the plan_article call for the item at position idx + 1 receives the
\* titles, the angles and the avoid-overlap lists of the idx items before it,
\* in item order, and the accumulator holds one plan per earlier item when the
\* call is made.
C24_AccumulatedContext ==
    (pc \in {"rbj_draft", "rbj_soft_qc", "rbj_revise", "rbj_faq", "rbj_result"}) =>
        /\ Len(successful_plans) = idx
        /\ plan_ctx.titles = [k \in 1..idx |-> items[k].title]
        /\ plan_ctx.angles = [k \in 1..idx |-> items[k].angle]
        /\ plan_ctx.avoid = Flatten([k \in 1..idx |-> items[k].avoid_overlap_with])

\* the soft-QC answer is no JSON, is JSON that is no object, or names no target
NoFixProposed(ans) ==
    ~ans.raises /\ (ans.json \in {"invalid", "other"} \/ ans.fix_targets = <<>>)

\* C25: in create_article_draft, a soft-QC answer that is malformed or names no
\* fix target ends the loop in that step: nothing is raised, the next step is
\* the FAQ phase, the draft and its report are unchanged and no regeneration
\* call is made.
C25_MalformedSoftQcEndsLoop ==
    [][(pc = "cad_soft_qc" /\ NoFixProposed(raw')) =>
          /\ pc' = "cad_faq"
          /\ errs' = errs
          /\ draft' = draft
          /\ qc_report' = qc_report
          /\ calls'.revise = calls.revise]_vars

\* C26: in create_article_draft, when a regeneration of the soft-revision loop
\* returns a hard-failed report, the function returns in that step with that
\* report and a ReviseRequest whose hard_fail is true, whose reasons are the
\* issue messages followed by the note of the regression; no soft-QC,
\* regeneration or FAQ call follows, and nothing runs after the return.
C26_RegressionExit ==
    [][/\ (pc = "cad_revise" /\ pc' # "cad_raised" /\ qc_report'.hard_failed) =>
             /\ pc' = "cad_returned"
             /\ Len(revise_request') = 1
             /\ revise_request'[1].hard_fail
             /\ Len(revise_request'[1].reasons) = Len(qc_report'.issues) + 1
             /\ LastReason(revise_request'[1]) = "soft_fix_hard_fail"
             /\ calls'.faq = 0
             /\ draft'.faq = <<>>
       /\ (pc = "cad_returned" /\ calls.faq = 0) => FALSE]_vars

C26_Witness ==
    /\ pc = "cad_returned"
    /\ calls = [soft_qc |-> 2, revise |-> 2, faq |-> 0]
    /\ qc_report.hard_failed
    /\ revise_request # <<>>
    /\ revise_request[1].hard_fail
    /\ LastReason(revise_request[1]) = "soft_fix_hard_fail"
    /\ revise_request[1].sections_to_regenerate # <<>>

\* the metrics whose issues name something to regenerate
TargetMetrics == {"min_h2_length", "outline_id", "h3_length", "outline_h3_id"}

\* C27: revise() returns as reasons the issue messages in issue order and as
\* hard_fail the report's hard_failed; sections_to_regenerate has one entry per
\* issue that has a target and a level-1 body, level-2 body or missing-structure
\* metric, and none for any other issue, so it is empty when only meta length,
\* heading count or assertive language were flagged, hard_fail being true or not.
C27_ReasonsMirrorIssues ==
    Revised =>
        LET rr == revise_request[1]
            issues == qc_report.issues
            naming == {i \in 1..Len(issues) :
                          issues[i].metric \in TargetMetrics /\ issues[i].target_id # NoId}
        IN /\ Len(rr.reasons) = Len(issues)
           /\ \A i \in 1..Len(issues) : rr.reasons[i] = issues[i].message
           /\ rr.hard_fail = qc_report.hard_failed
           /\ Len(rr.sections_to_regenerate) = Cardinality(naming)
           /\ naming = {} => rr.sections_to_regenerate = <<>>

C27_Witness ==
    /\ Revised
    /\ revise_request[1].hard_fail
    /\ revise_request[1].sections_to_regenerate = <<>>
    /\ Len(revise_request[1].reasons) = 2
    /\ qc_report.issues[1].metric = "meta_description_length"
    /\ qc_report.issues[2].metric = "assertive_language_found"
    /\ revise_request[1].reasons[2] = qc_report.issues[2].message

Merged == pc = "da_merged"

\* the last section of a list that carries the id
LastWithId(secs, id) ==
    secs[CHOOSE k \in 1..Len(secs) :
            secs[k].h2_id = id /\ \A j \in (k + 1)..Len(secs) : secs[j].h2_id # id]

IdsOf(secs) == {secs[k].h2_id : k \in 1..Len(secs)}

\* C28: in the list _replace_sections returns, every base section keeps its
\* position, replaced by the regenerated section of the same id if there is one
\* and unchanged otherwise; the regenerated sections whose id no base section
\* has follow, once per id; base ids that are pairwise distinct stay so.
C28_PositionalMerge ==
    [][(pc' = "da_merged" /\ pc \in {"da_returned", "da_merged"}) =>
          LET base == draft.sections
              new == raw'.sections
              res == draft'.sections
              tail == SubSeq(res, Len(base) + 1, Len(res))
          IN /\ Len(res) >= Len(base)
             /\ \A i \in 1..Len(base) :
                  /\ res[i].h2_id = base[i].h2_id
                  /\ res[i] = IF base[i].h2_id \in IdsOf(new)
                              THEN LastWithId(new, base[i].h2_id) ELSE base[i]
             /\ IdsOf(tail) = IdsOf(new) \ IdsOf(base)
             /\ Len(tail) = Cardinality(IdsOf(tail))
             /\ \A k \in 1..Len(tail) : tail[k] = LastWithId(new, tail[k].h2_id)
             /\ Distinct([i \in 1..Len(base) |-> base[i].h2_id]) =>
                  Distinct([i \in 1..Len(res) |-> res[i].h2_id])]_vars

C28_Witness ==
    /\ Merged
    /\ attempt = 1
    /\ Len(raw.sections) = 2
    /\ raw.sections[1].h2_id = H2Id("9")
    /\ raw.sections[2].h2_id = H2Id("3")
    /\ Len(draft.sections) = 5
    /\ draft.sections[3] = raw.sections[2]
    /\ draft.sections[5] = raw.sections[1]
    /\ draft.sections[1] = da_sections[1]

\* positions of the level-1 heading lines of a markdown
HeadingLines(md) == {i \in 1..Len(md) : md[i].k = "h2"}

\* code points of the text lines between a level-1 heading and the next one
BlockLength(md, i) ==
    LET later == {h \in HeadingLines(md) : h > i}
        stop == IF later = {} THEN Len(md) + 1
                ELSE CHOOSE h \in later : \A g \in later : h <= g
    IN SumSeq([j \in 1..(stop - i - 1) |->
                 IF md[i + j].k = "txt" THEN md[i + j].len ELSE 0])

\* C29: run_qc emits one hard h2_count issue when the number of level-1 heading
\* lines of the markdown is outside 4..8 and none otherwise; it emits one hard
\* min_h2_length issue when the shortest level-1 block has fewer than 300 code
\* points, targeting the id of a block of that length, and none when every block
\* has 300 or more; for a markdown without level-1 heading it emits the
\* min_h2_length issue without target.
C29_HeadingCountAndShortest ==
    QcRan =>
        LET md == draft.markdown
            heads == HeadingLines(md)
            n == Cardinality(heads)
            issues == qc_report.issues
            count == {k \in 1..Len(issues) : issues[k].metric = "h2_count"}
            short == {k \in 1..Len(issues) : issues[k].metric = "min_h2_length"}
            shortest == IF heads = {} THEN 0
                        ELSE CHOOSE m \in {BlockLength(md, i) : i \in heads} :
                                 \A i \in heads : m <= BlockLength(md, i)
        IN /\ Cardinality(count) = IF 4 <= n /\ n <= 8 THEN 0 ELSE 1
           /\ \A k \in count : issues[k].severity = "hard" /\ issues[k].target_id = NoId
           /\ Cardinality(short) = IF shortest < 300 THEN 1 ELSE 0
           /\ \A k \in short :
                /\ issues[k].severity = "hard"
                /\ IF heads = {} THEN issues[k].target_id = NoId
                   ELSE \E i \in heads : /\ md[i].id = issues[k].target_id
                                         /\ BlockLength(md, i) = shortest

C29_Witness ==
    /\ QcRan
    /\ Cardinality(HeadingLines(draft.markdown)) = 3
    /\ qc_report.measurements.min_h2_length = 299
    /\ \E k \in 1..Len(qc_report.issues) : qc_report.issues[k].metric = "h2_count"
    /\ \E k \in 1..Len(qc_report.issues) :
         /\ qc_report.issues[k].metric = "min_h2_length"
         /\ qc_report.issues[k].target_id = H2Id("3")
    /\ draft.markdown[1].id = H2Id("2")

\* the positions at which the job is as the last update call received it, or
\* as run_batch_job returned it
AtUpdate == pc \in {"rbj_plan", "rbj_finish", "rbj_update", "rbj_returned"}

\* a extends b
Extends(a, b) == Len(a) >= Len(b) /\ SubSeq(a, 1, Len(b)) = b

\* C30: whenever run_batch_job has handed the job to job_store.update, and when
\* it has returned, the job has as many results as current counts and at most
\* total, the i-th result (counted from 0) has index i, and no step of the run
\* removes or changes a result or a log line; whatever job the store held for
\* the id when the run started.
C30_ProgressInvariant ==
    [][/\ AtUpdate' =>
             /\ Len(job'.results) = job'.current
             /\ job'.current <= job'.total
             /\ \A i \in 1..Len(job'.results) : job'.results[i].index = i - 1
       /\ (job # Null) =>
             (Extends(job'.results, job.results) /\ Extends(job'.logs, job.logs))]_vars

\* the statuses at which a job is finished
Terminal == {"done", "failed"}

\* the moves of a job's status that a run may make in one step
StatusMoves == {<<"queued", "running">>, <<"running", "done">>,
                <<"running", "failed">>}

\* C31: the status of a job only moves queued -> running -> done or
\* running -> failed (a job that run_batch_job constructs itself starts as
\* queued and is running at once); run_batch_job never returns a job that is
\* queued or running; started_at is set whenever an item is about to be
\* processed; and finished_at is written in exactly the steps that set a
\* terminal status.
C31_StatusTransitions ==
    [][/\ IF job = Null
          THEN job' # Null => job'.status \in {"queued", "running"}
          ELSE /\ job'.status # job.status =>
                     <<job.status, job'.status>> \in StatusMoves
               /\ (job'.finished_at # job.finished_at) <=>
                     (job'.status # job.status /\ job'.status \in Terminal)
       /\ pc' = "rbj_returned" => job'.status \in Terminal
       /\ pc' = "rbj_plan" => job'.started_at # NoInt]_vars

====
